---- MODULE Spec2Model ----
(***************************************************************************)
(* Mood tracker server: the tRPC router (server/src/index.ts), its         *)
(* handlers (server/src/handlers) and the relational store they share      *)
(* (server/src/db/schema.ts).                                              *)
(*                                                                         *)
(* The store is one set of rows per table.  A row is a record carrying the *)
(* columns the handlers read or write; free-text columns that every        *)
(* handler copies through untouched (name, dosage, description,            *)
(* target_frequency, a log's notes) are left out, and so is frequency      *)
(* except in the rows of the adherence analytics, which parse it.          *)
(* Timestamps are ticks of one clock, read both by the store's             *)
(* defaultNow() and by new Date(); the analytics count the clock in days.  *)
(* A row's id is the table's serial: rows are never deleted, so the next   *)
(* id is the row count plus one.                                           *)
(***************************************************************************)
EXTENDS Integers, Sequences, FiniteSets, TLC

VARIABLES store, now, resp

vars == <<store, now, resp>>

(***************************************************************************)
(* Bounds of the model.                                                    *)
(***************************************************************************)
MaxRows == 2
MaxClock == 1
MaxEntries == 12
\* Day counts: the days a range may touch are 0 .. MaxDay.
MaxDay == 2
LongRun == 369

Users == {"u1", "u2"}

\* SQL NULL / JS null in a text column or field.
NULL == "NULL"

\* An input object is a function whose DOMAIN is the set of fields the
\* caller supplied: (f \in DOMAIN input) is the code's (input.f !== undefined).
Has(input, f) == f \in DOMAIN input

\* JS (x || null) on an optional text field: undefined, null and "" are falsy.
OrNull(input, f) ==
  IF Has(input, f) /\ input[f] # NULL /\ input[f] # "" THEN input[f] ELSE NULL

Tables ==
  {"mood_entries", "medications", "medication_logs", "supplements",
   "supplement_logs", "habits", "habit_logs", "reminders"}

EmptyStore == [t \in Tables |-> {}]

TotalRows(st) ==
  Cardinality(st.mood_entries) + Cardinality(st.medications)
  + Cardinality(st.medication_logs) + Cardinality(st.supplements)
  + Cardinality(st.supplement_logs) + Cardinality(st.habits)
  + Cardinality(st.habit_logs) + Cardinality(st.reminders)

\* serial('id').primaryKey()
NextId(table) == Cardinality(table) + 1

\* db.insert(table).values(row).returning()
Insert(st, t, row) == [st EXCEPT ![t] = @ \cup {row}]

\* db.select().from(table).where(eq(table.id, id))
SelectById(table, id) == {r \in table : r.id = id}

\* db.select().from(table).where(eq(table.user_id, user_id))
SelectByUser(table, user_id) == {r \in table : r.user_id = user_id}

\* rows[0] of a result holding one row (ids are unique).
First(rows) == CHOOSE r \in rows : TRUE

\* The outcome of one handler call: what the caller gets and the store after.
Ok(value, st) == [status |-> "ok", value |-> value, store |-> st]
Fail(status, st) == [status |-> status, value |-> NULL, store |-> st]

----------------------------------------------------------------------------
(***************************************************************************)
(* Input validation (zod schemas of server/src/schema.ts).                 *)
(* A number on the wire is modelled in tenths, so that 1.5 is 15: the      *)
(* schema is what turns such a number into the integer the handler gets.   *)
(***************************************************************************)
IsInt(x) == x % 10 = 0
Whole(x) == x \div 10

\* The scale without its upper limit.
moodScaleSchema_NoMax(x) == IsInt(x) /\ x >= 1 * 10

\* z.number().int().min(1).max(10)
moodScaleSchema(x) == IsInt(x) /\ x >= 1 * 10 /\ x <= 10 * 10

createMoodEntryInputSchema(input) ==
  /\ Has(input, "user_id") /\ Has(input, "mood_score")
  /\ moodScaleSchema(input.mood_score)

updateMoodEntryInputSchema(input) ==
  /\ Has(input, "id")
  /\ Has(input, "mood_score") => moodScaleSchema(input.mood_score)

\* The parsed input the handler receives.
Parsed(input) ==
  [f \in DOMAIN input |->
     IF f = "mood_score" THEN Whole(input[f]) ELSE input[f]]

----------------------------------------------------------------------------
(***************************************************************************)
(* Mood entries.                                                           *)
(***************************************************************************)
createMoodEntry(st, t, input) ==
  LET row == [id |-> NextId(st.mood_entries),
              user_id |-> input.user_id,
              mood_score |-> input.mood_score,
              notes |-> OrNull(input, "notes"),
              created_at |-> t,
              updated_at |-> t]
  IN Ok(row, Insert(st, "mood_entries", row))

\* Only a row that was never updated is updated.
UpdateById_Once(table, id, updateData) ==
  {IF r.id = id /\ r.updated_at = r.created_at
     THEN [f \in DOMAIN r |-> IF Has(updateData, f) THEN updateData[f] ELSE r[f]]
     ELSE r : r \in table}

\* db.update(table).set(updateData).where(eq(table.id, id)).returning()
UpdateById(table, id, updateData) ==
  {IF r.id = id
     THEN [f \in DOMAIN r |-> IF Has(updateData, f) THEN updateData[f] ELSE r[f]]
     ELSE r : r \in table}

\* The update object a handler builds: updated_at plus the supplied fields.
UpdateData(input, fields, t) ==
  [f \in ({"updated_at"} \cup (fields \cap DOMAIN input)) |->
     IF f = "updated_at" THEN t ELSE input[f]]

\* An update of a missing id inserts the entry instead (an upsert).
updateMoodEntry_Upsert(st, t, input) ==
  LET updateData == UpdateData(input, {"mood_score", "notes"}, t)
      after == UpdateById(st.mood_entries, input.id, updateData)
      row == [id |-> input.id, user_id |-> "u1",
              mood_score |-> IF Has(input, "mood_score") THEN input.mood_score ELSE 5,
              notes |-> OrNull(input, "notes"), created_at |-> t, updated_at |-> t]
  IN IF SelectById(st.mood_entries, input.id) = {}
       THEN Ok(row, Insert(st, "mood_entries", row))
       ELSE Ok(First(SelectById(after, input.id)), [st EXCEPT !.mood_entries = after])

updateMoodEntry(st, t, input) ==
  LET updateData == UpdateData(input, {"mood_score", "notes"}, t)
      after == UpdateById(st.mood_entries, input.id, updateData)
      result == SelectById(after, input.id)
  IN IF SelectById(st.mood_entries, input.id) = {}
       THEN Fail("NotFound", st)
       ELSE Ok(First(result), [st EXCEPT !.mood_entries = after])

\* publicProcedure.input(schema).mutation(handler): the handler runs only on
\* an input the schema accepts.
appRouter_createMoodEntry(st, t, input) ==
  IF createMoodEntryInputSchema(input)
    THEN createMoodEntry(st, t, Parsed(input))
    ELSE Fail("ValidationError", st)

appRouter_updateMoodEntry(st, t, input) ==
  IF updateMoodEntryInputSchema(input)
    THEN updateMoodEntry(st, t, Parsed(input))
    ELSE Fail("ValidationError", st)

----------------------------------------------------------------------------
(***************************************************************************)
(* Medications, supplements, habits and their logs.                        *)
(***************************************************************************)
createMedication(st, t, input) ==
  LET row == [id |-> NextId(st.medications),
              user_id |-> input.user_id,
              is_active |-> TRUE,
              created_at |-> t,
              updated_at |-> t]
  IN Ok(row, Insert(st, "medications", row))

createSupplement(st, t, input) ==
  LET row == [id |-> NextId(st.supplements),
              user_id |-> input.user_id,
              is_active |-> TRUE,
              created_at |-> t,
              updated_at |-> t]
  IN Ok(row, Insert(st, "supplements", row))

createHabit(st, t, input) ==
  LET row == [id |-> NextId(st.habits),
              user_id |-> input.user_id,
              is_active |-> TRUE,
              created_at |-> t,
              updated_at |-> t]
  IN Ok(row, Insert(st, "habits", row))

\* JS (input.taken_at || new Date()): a Date is always truthy.
OrNow(input, f, t) == IF Has(input, f) THEN input[f] ELSE t

\* The log is inserted for any existing medication, whoever owns it.
createMedicationLog_NoOwnerCheck(st, t, input) ==
  LET medication == SelectById(st.medications, input.medication_id)
      row == [id |-> NextId(st.medication_logs),
              medication_id |-> input.medication_id,
              user_id |-> input.user_id,
              taken_at |-> OrNow(input, "taken_at", t),
              created_at |-> t]
  IN IF medication = {} THEN Fail("NotFound", st)
     ELSE Ok(row, Insert(st, "medication_logs", row))

createMedicationLog(st, t, input) ==
  LET medication == SelectById(st.medications, input.medication_id)
      row == [id |-> NextId(st.medication_logs),
              medication_id |-> input.medication_id,
              user_id |-> input.user_id,
              taken_at |-> OrNow(input, "taken_at", t),
              created_at |-> t]
  IN IF medication = {} THEN Fail("NotFound", st)
     ELSE IF First(medication).user_id # input.user_id
       THEN Fail("OwnershipViolation", st)
     ELSE Ok(row, Insert(st, "medication_logs", row))

createSupplementLog(st, t, input) ==
  LET supplement == SelectById(st.supplements, input.supplement_id)
      row == [id |-> NextId(st.supplement_logs),
              supplement_id |-> input.supplement_id,
              user_id |-> input.user_id,
              taken_at |-> OrNow(input, "taken_at", t),
              created_at |-> t]
  IN IF supplement = {} THEN Fail("NotFound", st)
     ELSE IF First(supplement).user_id # input.user_id
       THEN Fail("OwnershipViolation", st)
     ELSE Ok(row, Insert(st, "supplement_logs", row))

\* A deactivated habit is treated as missing.
createHabitLog_ActiveOnly(st, t, input) ==
  LET habit == {h \in SelectById(st.habits, input.habit_id) : h.is_active}
      row == [id |-> NextId(st.habit_logs),
              habit_id |-> input.habit_id,
              user_id |-> input.user_id,
              completed_at |-> OrNow(input, "completed_at", t),
              created_at |-> t]
  IN IF habit = {} THEN Fail("NotFound", st)
     ELSE IF First(habit).user_id # input.user_id
       THEN Fail("OwnershipViolation", st)
     ELSE Ok(row, Insert(st, "habit_logs", row))

createHabitLog(st, t, input) ==
  LET habit == SelectById(st.habits, input.habit_id)
      row == [id |-> NextId(st.habit_logs),
              habit_id |-> input.habit_id,
              user_id |-> input.user_id,
              completed_at |-> OrNow(input, "completed_at", t),
              created_at |-> t]
  IN IF habit = {} THEN Fail("NotFound", st)
     ELSE IF First(habit).user_id # input.user_id
       THEN Fail("OwnershipViolation", st)
     ELSE Ok(row, Insert(st, "habit_logs", row))

----------------------------------------------------------------------------
(***************************************************************************)
(* Reminders.  target_id is only ever null here: created without one.      *)
(***************************************************************************)
createReminder(st, t, input) ==
  LET row == [id |-> NextId(st.reminders),
              user_id |-> input.user_id,
              title |-> input.title,
              message |-> OrNull(input, "message"),
              reminder_time |-> input.reminder_time,
              days_of_week |-> input.days_of_week,
              is_active |-> TRUE,
              reminder_type |-> input.reminder_type,
              target_id |-> OrNull(input, "target_id"),
              created_at |-> t,
              updated_at |-> t]
  IN Ok(row, Insert(st, "reminders", row))

ReminderFields ==
  {"title", "message", "reminder_time", "days_of_week", "is_active",
   "reminder_type", "target_id"}

updateReminder(st, t, input) ==
  LET existingReminder == SelectById(st.reminders, input.id)
      updateValues == UpdateData(input, ReminderFields, t)
      after == UpdateById(st.reminders, input.id, updateValues)
      result == SelectById(after, input.id)
  IN IF existingReminder = {}
       THEN Fail("NotFound", st)
       ELSE Ok(First(result), [st EXCEPT !.reminders = after])

----------------------------------------------------------------------------
(***************************************************************************)
(* Reads.  A select returns its rows as an array.  Without ORDER BY the    *)
(* store may return them in any order; with ORDER BY col DESC in any order *)
(* that is non-increasing in col (rows equal in col in either order).  A   *)
(* read is therefore the set of arrays it may return.                      *)
(***************************************************************************)
Arrays(rows) ==
  {a \in [1 .. Cardinality(rows) -> rows] :
     \A i, j \in DOMAIN a : i # j => a[i] # a[j]}

\* .orderBy(desc(col))
OrderByDesc(rows, col) ==
  {a \in Arrays(rows) :
     \A i, j \in DOMAIN a : i < j => a[i][col] >= a[j][col]}

\* and(eq(table.user_id, user_id), eq(table.is_active, true))
SelectActiveByUser(table, user_id) ==
  {r \in table : r.user_id = user_id /\ r.is_active = TRUE}

getMoodEntries(st, user_id) ==
  OrderByDesc(SelectByUser(st.mood_entries, user_id), "created_at")

getMedications(st, user_id) ==
  OrderByDesc(SelectByUser(st.medications, user_id), "created_at")

getActiveMedications(st, user_id) ==
  OrderByDesc(SelectActiveByUser(st.medications, user_id), "created_at")

getSupplements(st, user_id) ==
  OrderByDesc(SelectByUser(st.supplements, user_id), "created_at")

getActiveSupplements(st, user_id) ==
  OrderByDesc(SelectActiveByUser(st.supplements, user_id), "created_at")

getHabits(st, user_id) ==
  OrderByDesc(SelectByUser(st.habits, user_id), "created_at")

getActiveHabits(st, user_id) ==
  OrderByDesc(SelectActiveByUser(st.habits, user_id), "created_at")

getReminders(st, user_id) ==
  Arrays(SelectByUser(st.reminders, user_id))

getActiveReminders(st, user_id) ==
  Arrays(SelectActiveByUser(st.reminders, user_id))

getMedicationLogs(st, user_id) ==
  OrderByDesc(SelectByUser(st.medication_logs, user_id), "taken_at")

\* .innerJoin(habitsTable, eq(habitLogsTable.habit_id, habitsTable.id))
getHabitLogs(st, user_id) ==
  OrderByDesc({l \in SelectByUser(st.habit_logs, user_id) :
                 \E h \in st.habits : l.habit_id = h.id}, "completed_at")

----------------------------------------------------------------------------
(***************************************************************************)
(* Export.  Promise.all over eight selects, each issued once.  `failed` is *)
(* the set of selects the store fails: the call rejects with the error of  *)
(* one of them; with none failed it returns the eight arrays.              *)
(***************************************************************************)
\* Only rows still active are exported.
Snapshots_ActiveOnly(st, user_id) ==
  {[mood_entries |-> a1, medications |-> a2, medication_logs |-> a3,
    supplements |-> a4, supplement_logs |-> a5, habits |-> a6,
    habit_logs |-> a7, reminders |-> a8] :
      a1 \in Arrays(SelectByUser(st.mood_entries, user_id)),
      a2 \in Arrays(SelectActiveByUser(st.medications, user_id)),
      a3 \in Arrays(SelectByUser(st.medication_logs, user_id)),
      a4 \in Arrays(SelectActiveByUser(st.supplements, user_id)),
      a5 \in Arrays(SelectByUser(st.supplement_logs, user_id)),
      a6 \in Arrays(SelectActiveByUser(st.habits, user_id)),
      a7 \in Arrays(SelectByUser(st.habit_logs, user_id)),
      a8 \in Arrays(SelectActiveByUser(st.reminders, user_id))}

Snapshots(st, user_id) ==
  {[mood_entries |-> a1, medications |-> a2, medication_logs |-> a3,
    supplements |-> a4, supplement_logs |-> a5, habits |-> a6,
    habit_logs |-> a7, reminders |-> a8] :
      a1 \in Arrays(SelectByUser(st.mood_entries, user_id)),
      a2 \in Arrays(SelectByUser(st.medications, user_id)),
      a3 \in Arrays(SelectByUser(st.medication_logs, user_id)),
      a4 \in Arrays(SelectByUser(st.supplements, user_id)),
      a5 \in Arrays(SelectByUser(st.supplement_logs, user_id)),
      a6 \in Arrays(SelectByUser(st.habits, user_id)),
      a7 \in Arrays(SelectByUser(st.habit_logs, user_id)),
      a8 \in Arrays(SelectByUser(st.reminders, user_id))}

\* Promise.allSettled: a failed select contributes an empty array.
exportUserData_AllSettled(st, t, user_id, failed) ==
  {[status |-> "ok",
    value |-> [data |-> [tb \in Tables |-> IF tb \in failed THEN <<>> ELSE s[tb]],
               exported_at |-> t],
    store |-> st, selects |-> [tb \in Tables |-> 1]] :
      s \in Snapshots(st, user_id)}

exportUserData(st, t, user_id, failed) ==
  IF failed = {}
    THEN {[status |-> "ok", value |-> [data |-> s, exported_at |-> t],
           store |-> st, selects |-> [tb \in Tables |-> 1]] :
            s \in Snapshots(st, user_id)}
    ELSE {[status |-> "StoreError", value |-> e,
           store |-> st, selects |-> [tb \in Tables |-> 1]] : e \in failed}

----------------------------------------------------------------------------
Respond(op, user_id, r) ==
  /\ store' = r.store
  /\ resp' = [op |-> op, user_id |-> user_id, status |-> r.status, value |-> r.value]
  /\ UNCHANGED now

HasRoom == TotalRows(store) < MaxRows

Ids == 1 .. MaxRows

\* numbers on the wire, in tenths: 0, 1, 1.5, 10, 11
RawScores == {0, 10, 15, 100, 110}

CreateMoodEntryInputs ==
  [user_id : Users, mood_score : RawScores]
  \cup [user_id : Users, mood_score : RawScores, notes : {"a"}]

UpdateMoodEntryInputs ==
  [id : Ids] \cup [id : Ids, mood_score : RawScores]
  \cup [id : Ids, notes : {NULL}]
  \cup [id : Ids, mood_score : {100}, notes : {NULL}]

CreateInputs == [user_id : Users]

CreateMedicationLogInputs ==
  [medication_id : Ids, user_id : Users]
  \cup [medication_id : Ids, user_id : Users, taken_at : {0}]

CreateSupplementLogInputs ==
  [supplement_id : Ids, user_id : Users]
  \cup [supplement_id : Ids, user_id : Users, taken_at : {0}]

CreateHabitLogInputs ==
  [habit_id : Ids, user_id : Users]
  \cup [habit_id : Ids, user_id : Users, completed_at : {0}]

CreateReminderInputs ==
  [user_id : Users, title : {"t"}, reminder_time : {"09:00"},
   days_of_week : {<<1>>}, reminder_type : {"general"}]

UpdateReminderInputs ==
  [id : Ids]
  \cup [id : Ids, is_active : {FALSE}]
  \cup [id : Ids, title : {"t2"}, message : {"m"}, reminder_time : {"10:00"},
        days_of_week : {<<2>>}, reminder_type : {"mood"}, target_id : {NULL}]

\* The sets of selects of one export that the store fails.
FailedSelects == {{}, {"mood_entries"}, {"habit_logs"}, {"medications", "reminders"}}

----------------------------------------------------------------------------
(***************************************************************************)
(* The router: one action per procedure.  resp is the last call's outcome: *)
(* the procedure, the user the call was made for, the status and the value *)
(* returned.  A query names its user in the input; an update input carries *)
(* no user_id, so the caller of an update is known to the client alone and *)
(* no handler sees it.                                                     *)
(***************************************************************************)
CreateMoodEntry ==
  \E input \in CreateMoodEntryInputs :
    /\ HasRoom
    /\ Respond("createMoodEntry", input.user_id, appRouter_createMoodEntry(store, now, input))

UpdateMoodEntry ==
  \E caller \in Users, input \in UpdateMoodEntryInputs :
    Respond("updateMoodEntry", caller, appRouter_updateMoodEntry(store, now, input))

CreateMedication ==
  \E input \in CreateInputs :
    /\ HasRoom
    /\ Respond("createMedication", input.user_id, createMedication(store, now, input))

CreateSupplement ==
  \E input \in CreateInputs :
    /\ HasRoom
    /\ Respond("createSupplement", input.user_id, createSupplement(store, now, input))

CreateHabit ==
  \E input \in CreateInputs :
    /\ HasRoom
    /\ Respond("createHabit", input.user_id, createHabit(store, now, input))

CreateMedicationLog ==
  \E input \in CreateMedicationLogInputs :
    /\ HasRoom
    /\ Respond("createMedicationLog", input.user_id,
               createMedicationLog(store, now, input))

CreateSupplementLog ==
  \E input \in CreateSupplementLogInputs :
    /\ HasRoom
    /\ Respond("createSupplementLog", input.user_id,
               createSupplementLog(store, now, input))

CreateHabitLog ==
  \E input \in CreateHabitLogInputs :
    /\ HasRoom
    /\ Respond("createHabitLog", input.user_id, createHabitLog(store, now, input))

CreateReminder ==
  \E input \in CreateReminderInputs :
    /\ HasRoom
    /\ Respond("createReminder", input.user_id, createReminder(store, now, input))

UpdateReminder ==
  \E caller \in Users, input \in UpdateReminderInputs :
    Respond("updateReminder", caller, updateReminder(store, now, input))

\* A query: the store is read, one of the arrays the read may return is the
\* response.
Query(op, user_id, results) ==
  \E a \in results : Respond(op, user_id, Ok(a, store))

GetMoodEntries ==
  \E u \in Users : Query("getMoodEntries", u, getMoodEntries(store, u))

GetMedications ==
  \E u \in Users : Query("getMedications", u, getMedications(store, u))

GetActiveMedications ==
  \E u \in Users : Query("getActiveMedications", u, getActiveMedications(store, u))

GetSupplements ==
  \E u \in Users : Query("getSupplements", u, getSupplements(store, u))

GetActiveSupplements ==
  \E u \in Users : Query("getActiveSupplements", u, getActiveSupplements(store, u))

GetHabits ==
  \E u \in Users : Query("getHabits", u, getHabits(store, u))

GetActiveHabits ==
  \E u \in Users : Query("getActiveHabits", u, getActiveHabits(store, u))

GetReminders ==
  \E u \in Users : Query("getReminders", u, getReminders(store, u))

GetActiveReminders ==
  \E u \in Users : Query("getActiveReminders", u, getActiveReminders(store, u))

GetMedicationLogs ==
  \E u \in Users : Query("getMedicationLogs", u, getMedicationLogs(store, u))

GetHabitLogs ==
  \E u \in Users : Query("getHabitLogs", u, getHabitLogs(store, u))

ExportUserData ==
  \E u \in Users, failed \in FailedSelects :
    \E r \in exportUserData(store, now, u, failed) :
      Respond("exportUserData", u, r)

\* Time passes between calls.
Tick ==
  /\ now < MaxClock
  /\ now' = now + 1
  /\ UNCHANGED <<store, resp>>

----------------------------------------------------------------------------
(***************************************************************************)
(* The store before the first call: empty, or holding one deactivated      *)
(* medication, supplement or habit.  The router has no procedure that      *)
(* clears is_active for these kinds; such rows are written to the store    *)
(* directly (as the handlers' tests do).                                   *)
(***************************************************************************)
Inactive(user_id) ==
  [id |-> 1, user_id |-> user_id, is_active |-> FALSE,
   created_at |-> 0, updated_at |-> 0]

Seeds ==
  {EmptyStore} \cup
  {Insert(EmptyStore, tb, Inactive("u1")) : tb \in {"medications", "supplements", "habits"}}

Init ==
  /\ store \in Seeds
  /\ now = 0
  /\ resp = [op |-> "none", user_id |-> NULL, status |-> "ok", value |-> NULL]

Next ==
  \/ CreateMoodEntry
  \/ UpdateMoodEntry
  \/ CreateMedication
  \/ CreateSupplement
  \/ CreateHabit
  \/ CreateMedicationLog
  \/ CreateSupplementLog
  \/ CreateHabitLog
  \/ CreateReminder
  \/ UpdateReminder
  \/ GetMoodEntries
  \/ GetMedications
  \/ GetActiveMedications
  \/ GetSupplements
  \/ GetActiveSupplements
  \/ GetHabits
  \/ GetActiveHabits
  \/ GetReminders
  \/ GetActiveReminders
  \/ GetMedicationLogs
  \/ GetHabitLogs
  \/ ExportUserData
  \/ Tick

Spec == Init /\ [][Next]_vars

----------------------------------------------------------------------------
(***************************************************************************)
(* Properties.  A property of a handler's contract is stated over every    *)
(* input the router may pass it in the current state; a property of what a *)
(* call returned is stated over resp, the outcome of the last call.        *)
(***************************************************************************)

\* The outcome of a log-creating handler against its parent table.
LogContract(r, st, parents, logs, parent_id, user_id) ==
  LET parent == {p \in st[parents] : p.id = parent_id}
      owned == parent # {} /\ \A p \in parent : p.user_id = user_id
  IN /\ (r.status = "ok") <=> owned
     /\ parent = {} => r.status = "NotFound"
     /\ (parent # {} /\ ~owned) => r.status = "OwnershipViolation"
     /\ r.status = "ok" =>
          /\ r.value \notin st[logs]
          /\ r.store = [st EXCEPT ![logs] = @ \cup {r.value}]
          /\ r.value.user_id = user_id
     /\ r.status # "ok" => r.store = st

\* C1: every medication log, supplement log and habit log in the store
\* references a parent row that exists and has the log's user_id.
C1_LogsReferenceOwnedParent ==
  /\ \A l \in store.medication_logs :
       \E m \in store.medications : m.id = l.medication_id /\ m.user_id = l.user_id
  /\ \A l \in store.supplement_logs :
       \E s \in store.supplements : s.id = l.supplement_id /\ s.user_id = l.user_id
  /\ \A l \in store.habit_logs :
       \E h \in store.habits : h.id = l.habit_id /\ h.user_id = l.user_id

\* A log was just created.
C1_Witness ==
  /\ resp.op \in {"createMedicationLog", "createSupplementLog", "createHabitLog"}
  /\ resp.status = "ok"
  /\ store.medication_logs \cup store.supplement_logs \cup store.habit_logs # {}

\* C2: createMedicationLog, createSupplementLog and createHabitLog succeed,
\* inserting exactly one log row, if and only if the parent exists and has
\* the input's user_id, active or not; a missing parent gives NotFound, a
\* parent of another user OwnershipViolation, and then the store is unchanged.
C2_CreateLogContract ==
  /\ \A input \in CreateMedicationLogInputs :
       LogContract(createMedicationLog(store, now, input), store, "medications",
                   "medication_logs", input.medication_id, input.user_id)
  /\ \A input \in CreateSupplementLogInputs :
       LogContract(createSupplementLog(store, now, input), store, "supplements",
                   "supplement_logs", input.supplement_id, input.user_id)
  /\ \A input \in CreateHabitLogInputs :
       LogContract(createHabitLog(store, now, input), store, "habits",
                   "habit_logs", input.habit_id, input.user_id)

\* A habit log was just created for a deactivated habit.
C2_Witness ==
  /\ resp.op = "createHabitLog"
  /\ resp.status = "ok"
  /\ \E h \in store.habits : h.id = resp.value.habit_id /\ ~h.is_active

\* C3: every stored mood entry has an integer mood_score in 1..10; a create
\* or update whose mood_score is not such a number is rejected by the input
\* validation and leaves the store unchanged.
C3_MoodScoreInRange ==
  /\ \A m \in store.mood_entries : m.mood_score \in 1 .. 10
  /\ \A input \in CreateMoodEntryInputs :
       input.mood_score \notin {10 * n : n \in 1 .. 10} =>
         LET r == appRouter_createMoodEntry(store, now, input)
         IN r.status = "ValidationError" /\ r.store = store
  /\ \A input \in UpdateMoodEntryInputs :
       (Has(input, "mood_score") /\ input.mood_score \notin {10 * n : n \in 1 .. 10}) =>
         LET r == appRouter_updateMoodEntry(store, now, input)
         IN r.status = "ValidationError" /\ r.store = store

\* An update was just rejected by the validation while an entry is stored.
C3_Witness ==
  /\ resp.op = "updateMoodEntry"
  /\ resp.status = "ValidationError"
  /\ store.mood_entries # {}

\* The outcome of a successful update against the row it names: the fields
\* the input names take the input's values, every other field but updated_at
\* keeps its value, and the stored row is the returned one.
UpdateFrame(r, st, table, input, fields) ==
  \A old \in {x \in st[table] : x.id = input.id} :
    /\ r.status = "ok"
    /\ DOMAIN r.value = DOMAIN old
    /\ \A f \in DOMAIN old :
         IF f \in fields \cap DOMAIN input THEN r.value[f] = input[f]
         ELSE f # "updated_at" => r.value[f] = old[f]
    /\ r.store = [st EXCEPT ![table] = (@ \ {old}) \cup {r.value}]

UpdatedAtIncreases(r, st, table, input) ==
  \A old \in {x \in st[table] : x.id = input.id} :
    r.value.updated_at > old.updated_at

ValidMoodUpdates == {input \in UpdateMoodEntryInputs : updateMoodEntryInputSchema(input)}

\* The frame part of C4 alone, over every update the router may run in the
\* current state.
C4_Frame ==
  /\ \A input \in ValidMoodUpdates :
       UpdateFrame(appRouter_updateMoodEntry(store, now, input), store,
                   "mood_entries", Parsed(input), {"mood_score", "notes"})
  /\ \A input \in UpdateReminderInputs :
       UpdateFrame(updateReminder(store, now, input), store,
                   "reminders", input, ReminderFields)

\* A step in which the router ran the given update and it succeeded.
UpdateStep(op, r) ==
  /\ now' = now
  /\ resp'.op = op
  /\ r.status = "ok"
  /\ resp'.status = r.status
  /\ resp'.value = r.value
  /\ store' = r.store

\* C4: a successful updateMoodEntry or updateReminder changes only the fields
\* present in the input plus updated_at, in the returned and in the stored
\* record, and the new updated_at is strictly greater than the prior one.
C4_UpdateFrameAndStrictIncrease ==
  [][/\ \A input \in ValidMoodUpdates :
          LET r == appRouter_updateMoodEntry(store, now, input)
          IN UpdateStep("updateMoodEntry", r) =>
               /\ UpdateFrame(r, store, "mood_entries", Parsed(input),
                              {"mood_score", "notes"})
               /\ UpdatedAtIncreases(r, store, "mood_entries", input)
     /\ \A input \in UpdateReminderInputs :
          LET r == updateReminder(store, now, input)
          IN UpdateStep("updateReminder", r) =>
               /\ UpdateFrame(r, store, "reminders", input, ReminderFields)
               /\ UpdatedAtIncreases(r, store, "reminders", input)]_vars

\* C5: updateMoodEntry and updateReminder called with an id no record has fail
\* with NotFound and leave the store unchanged.
C5_UpdateMissingIsNotFound ==
  /\ \A input \in ValidMoodUpdates :
       (\A m \in store.mood_entries : m.id # input.id) =>
         LET r == appRouter_updateMoodEntry(store, now, input)
         IN r.status = "NotFound" /\ r.store = store
  /\ \A input \in UpdateReminderInputs :
       (\A m \in store.reminders : m.id # input.id) =>
         LET r == updateReminder(store, now, input)
         IN r.status = "NotFound" /\ r.store = store
  /\ (resp.op \in {"updateMoodEntry", "updateReminder"} /\ resp.status = "NotFound")
       => resp.value = NULL

\* An update of a missing mood entry just failed while another entry is stored.
C5_Witness ==
  /\ resp.op = "updateMoodEntry"
  /\ resp.status = "NotFound"
  /\ store.mood_entries # {}

\* C6: an update issued on behalf of one user never modifies a mood entry or
\* reminder of another user: such a call fails with NotFound.
C6_UpdateScopedToCaller ==
  [][(now' = now /\ resp'.op \in {"updateMoodEntry", "updateReminder"}) =>
       LET table == IF resp'.op = "updateMoodEntry" THEN "mood_entries" ELSE "reminders"
           foreign == {x \in store[table] : x.user_id # resp'.user_id}
       IN /\ resp'.status = "ok" => resp'.value.user_id = resp'.user_id
          /\ \A x \in foreign : x \in store'[table]]_vars

Range(a) == {a[i] : i \in DOMAIN a}

\* C7: an export returns, for each of the eight tables, exactly the stored
\* rows whose user_id is the argument (each once, active or not, none of
\* another user), so eight empty arrays for a user without rows, and an
\* exported_at.
C7_ExportExactlyUserRows ==
  (resp.op = "exportUserData" /\ resp.status = "ok") =>
    /\ DOMAIN resp.value.data = Tables
    /\ \A tb \in Tables :
         LET a == resp.value.data[tb]
             mine == {r \in store[tb] : r.user_id = resp.user_id}
         IN Range(a) = mine /\ Len(a) = Cardinality(mine)
    /\ resp.value.exported_at \in Nat

\* An export just returned a deactivated row of its user while the other
\* user has a row in the store.
C7_Witness ==
  /\ resp.op = "exportUserData"
  /\ resp.status = "ok"
  /\ \E tb \in {"medications", "supplements", "habits", "reminders"} :
       \E r \in Range(resp.value.data[tb]) : ~r.is_active
  /\ \E tb \in Tables : \E r \in store[tb] : r.user_id # resp.user_id

\* C8: if a select of an export fails, the call fails with the error of a
\* failed select and returns no snapshot; every select was issued once and
\* the store is not modified.
C8_ExportFailsFast ==
  /\ \A u \in Users, failed \in FailedSelects \ {{}} :
       \A r \in exportUserData(store, now, u, failed) :
         /\ r.status = "StoreError"
         /\ r.value \in failed
         /\ r.store = store
         /\ \A tb \in Tables : r.selects[tb] = 1
  /\ (resp.op = "exportUserData" /\ resp.status = "StoreError") =>
       resp.value \in Tables

\* An export just failed while the store holds rows.
C8_Witness ==
  /\ resp.op = "exportUserData"
  /\ resp.status = "StoreError"
  /\ TotalRows(store) > 0

ListedTable(op) ==
  CASE op = "getMoodEntries" -> "mood_entries"
    [] op = "getMedications" -> "medications"
    [] op = "getSupplements" -> "supplements"
    [] op = "getHabits" -> "habits"
    [] op = "getReminders" -> "reminders"
    [] op = "getMedicationLogs" -> "medication_logs"
    [] op = "getHabitLogs" -> "habit_logs"

ListOps ==
  {"getMoodEntries", "getMedications", "getSupplements", "getHabits",
   "getReminders", "getMedicationLogs", "getHabitLogs"}

\* C9: a list query returns exactly the records of its table whose user_id
\* is the argument, newest first by creation time.
C9_ListNewestFirst ==
  resp.op \in ListOps =>
    LET a == resp.value
        mine == {r \in store[ListedTable(resp.op)] : r.user_id = resp.user_id}
    IN /\ Range(a) = mine
       /\ Len(a) = Cardinality(mine)
       /\ \A i, j \in DOMAIN a : i < j => a[i].created_at >= a[j].created_at

IsActive(r) == r.is_active

\* C10: for medications, supplements, habits and reminders, the active list
\* of a user is the list of that user with the inactive records struck out,
\* the others in the same relative order.
C10_ActiveIsFilteredList ==
  \A u \in Users :
    /\ \A l \in getMedications(store, u), a \in getActiveMedications(store, u) :
         a = SelectSeq(l, IsActive)
    /\ \A l \in getSupplements(store, u), a \in getActiveSupplements(store, u) :
         a = SelectSeq(l, IsActive)
    /\ \A l \in getHabits(store, u), a \in getActiveHabits(store, u) :
         a = SelectSeq(l, IsActive)
    /\ \A l \in getReminders(store, u), a \in getActiveReminders(store, u) :
         a = SelectSeq(l, IsActive)

CreateOps == {"createMedication", "createSupplement", "createHabit", "createReminder"}

Toggled == {"medications", "supplements", "habits"}

\* Some call of the router leaves the row of table tb with the given id
\* deactivated.
CanDeactivate(tb, id) ==
  ENABLED (Next /\ \E r \in store'[tb] : r.id = id /\ ~r.is_active)

\* C11: a medication, supplement, habit or reminder is created active; an
\* active medication, supplement or habit can be deactivated by a call of the
\* router; a deactivated one is still listed for its user and is not in the
\* active list.
C11_CreatedActiveAndCanDeactivate ==
  /\ (resp.op \in CreateOps /\ resp.status = "ok") => resp.value.is_active
  /\ \A tb \in Toggled :
       \A r \in store[tb] : r.is_active => CanDeactivate(tb, r.id)
  /\ \A r \in store.medications :
       ~r.is_active =>
         /\ \A l \in getMedications(store, r.user_id) : r \in Range(l)
         /\ \A a \in getActiveMedications(store, r.user_id) : r \notin Range(a)
  /\ \A r \in store.supplements :
       ~r.is_active =>
         /\ \A l \in getSupplements(store, r.user_id) : r \in Range(l)
         /\ \A a \in getActiveSupplements(store, r.user_id) : r \notin Range(a)
  /\ \A r \in store.habits :
       ~r.is_active =>
         /\ \A l \in getHabits(store, r.user_id) : r \in Range(l)
         /\ \A a \in getActiveHabits(store, r.user_id) : r \notin Range(a)

----------------------------------------------------------------------------
(***************************************************************************)
(* Numbers.  A JavaScript number is an IEEE double.  The quotient of two   *)
(* small positive integers num / den is held as the exact fraction and the *)
(* rounding error of the division: the double is                           *)
(*   (num + err * 2^(exp - 52)) / den,   2^exp <= num / den < 2^(exp + 1), *)
(* err being what round-to-nearest-even leaves after 53 significant bits.  *)
(***************************************************************************)
Min(a, b) == IF a < b THEN a ELSE b
Max(a, b) == IF a > b THEN a ELSE b

RECURSIVE Exponent(_, _)
Exponent(num, den) ==
  IF num < den THEN Exponent(2 * num, den) - 1
  ELSE IF 2 * den <= num THEN 1 + Exponent(num, 2 * den) ELSE 0

\* 2^k modulo den, by repeated squaring.
RECURSIVE PowerOfTwoMod(_, _)
PowerOfTwoMod(k, den) ==
  IF k = 0 THEN 1 % den
  ELSE LET half == PowerOfTwoMod(k \div 2, den)
           square == (half * half) % den
       IN IF k % 2 = 1 THEN (2 * square) % den ELSE square

\* The remainder of num * 2^k by den: what is left of num / den after k
\* fractional bits.
Remainder(num, den, k) == ((num % den) * PowerOfTwoMod(k, den)) % den

\* Long division: the remainder and the last quotient bit after k bits.
LongDivision(num, den, k) ==
  [rem |-> Remainder(num, den, k),
   bit |-> IF k = 0 THEN (num \div den) % 2
           ELSE (2 * Remainder(num, den, k - 1)) \div den]

\* num / den, for num > 0 and den > 0.  The double is
\* num / den + err * 2^(exp - 52) / (den * scale).
Divide(num, den) ==
  LET e == Exponent(num, den)
      d == LongDivision(num, den, 52 - e)
      up == 2 * d.rem > den \/ (2 * d.rem = den /\ d.bit = 1)
  IN [num |-> num, den |-> den, exp |-> e,
      err |-> IF up THEN den - d.rem ELSE 0 - d.rem, scale |-> 1]

\* a - b for two quotients of the same denominator; err is in units of
\* 2^(-52) / den.  The subtraction is exact near the thresholds compared with.
Subtract(a, b) ==
  [num |-> a.num - b.num, den |-> a.den,
   err |-> a.err * 2 ^ a.exp - b.err * 2 ^ b.exp]

\* x > halves / 2 and x < halves / 2 (0.5 is halves = 1).
GreaterThanHalves(x, halves) ==
  LET d == 2 * x.num - halves * x.den IN d > 0 \/ (d = 0 /\ x.err > 0)

LessThanHalves(x, halves) ==
  LET d == 2 * x.num - halves * x.den IN d < 0 \/ (d = 0 /\ x.err < 0)

\* x * m for a double x and an integer m >= 1: the exact product of the
\* fraction, and of the error x carries, rounded to nearest-even again.
Times(x, m) ==
  LET num == m * x.num
      e0 == Exponent(num, x.den)
      powerOfTwo == IF e0 >= 0 THEN num = x.den * 2 ^ e0
                    ELSE num * 2 ^ (0 - e0) = x.den
      e == IF powerOfTwo /\ x.err < 0 THEN e0 - 1 ELSE e0
      shift == 2 ^ (e - x.exp)
      unit == x.den * x.scale * shift
      d == LongDivision(num, x.den, 52 - e)
      exact == d.rem * x.scale * shift
      carried == exact + m * x.err
      whole == IF carried >= 0 THEN carried \div unit
               ELSE 0 - ((unit - 1 - carried) \div unit)
      rest == carried - whole * unit
      odd == (d.bit + whole + 2) % 2 = 1
      up == 2 * rest > unit \/ (2 * rest = unit /\ odd)
  IN [num |-> num, den |-> x.den, exp |-> e,
      err |-> (IF up THEN whole + 1 ELSE whole) * unit - exact,
      scale |-> x.scale * shift]

\* Math.round(x) of a double x: the nearest integer, a half going up.
Round(x) ==
  LET twice == 2 * x.num + x.den
      whole == twice \div (2 * x.den)
  IN IF twice % (2 * x.den) = 0 /\ x.err < 0 THEN whole - 1 ELSE whole

\* Math.round((part / total) * 100) and Math.round((part / total) * 100 * 100)
\* for total > 0; 0 / total is 0 and so are its multiples.
Percent(part, total) ==
  IF part = 0 THEN 0 ELSE Round(Times(Divide(part, total), 100))

\* Rounded to a whole percentage.
Hundredths_Whole(part, total) == 100 * Percent(part, total)

\* Math.round((part / total) * 100 * 100): the percentage in hundredths.
Hundredths(part, total) ==
  IF part = 0 THEN 0 ELSE Round(Times(Times(Divide(part, total), 100), 100))

\* The double nearest to num / den + err * 2^(ref - 52) / den, ties to even.
Nearest(num, den, err, ref) ==
  LET e0 == Exponent(num, den)
      powerOfTwo == IF e0 >= 0 THEN num = den * 2 ^ e0
                    ELSE num * 2 ^ (0 - e0) = den
      e == IF powerOfTwo /\ err < 0 THEN e0 - 1 ELSE e0
      unit == den * (IF e > ref THEN 2 ^ (e - ref) ELSE 1)
      d == LongDivision(num, den, 52 - e)
      exact == d.rem * (unit \div den)
      carried == exact + err * (IF ref > e THEN 2 ^ (ref - e) ELSE 1)
      whole == IF carried >= 0 THEN carried \div unit
               ELSE 0 - ((unit - 1 - carried) \div unit)
      rest == carried - whole * unit
      odd == (d.bit + whole + 2) % 2 = 1
      up == 2 * rest > unit \/ (2 * rest = unit /\ odd)
  IN [num |-> num, den |-> den, exp |-> e,
      err |-> (IF up THEN whole + 1 ELSE whole) * den - d.rem, scale |-> 1]

\* x + y for two doubles of the same denominator; err is a multiple of scale.
Plus(x, y) ==
  Nearest(x.num + y.num, x.den,
          (x.err \div x.scale) * 2 ^ (x.exp - Min(x.exp, y.exp))
            + (y.err \div y.scale) * 2 ^ (y.exp - Min(x.exp, y.exp)),
          Min(x.exp, y.exp))

\* x / n for a double x and an integer n >= 1.
Over(x, n) == Nearest(x.num, x.den * n, x.err \div x.scale, x.exp)

\* x >= n for a double x and an integer n.
AtLeast(x, n) == x.num > n * x.den \/ (x.num = n * x.den /\ x.err >= 0)

(***************************************************************************)
(* Mood analytics.  A value that may be null (best_day, worst_day) is the  *)
(* set of at most one record.  average_mood is not modelled and           *)
(* weekly_averages are modelled with the weekly buckets further down.      *)
(***************************************************************************)
\* .orderBy(col): ascending, rows equal in col in either order.
RECURSIVE OrderByAsc(_, _)
OrderByAsc(rows, col) ==
  IF rows = {} THEN {<<>>}
  ELSE UNION {{<<r>> \o a : a \in OrderByAsc(rows \ {r}, col)} :
                r \in {x \in rows : \A y \in rows : x[col] <= y[col]}}

\* and(eq(user_id), gte(col, start_date), lte(col, end_date))
SelectInRange(table, query, col) ==
  {r \in table : /\ r.user_id = query.user_id
                 /\ r[col] >= query.start_date
                 /\ r[col] <= query.end_date}

RECURSIVE SumScores(_, _, _)
SumScores(a, from, to) ==
  IF from > to THEN 0 ELSE a[from].mood_score + SumScores(a, from + 1, to)

\* The last of the best entries wins.
RECURSIVE BestDay_LastWins(_, _)
BestDay_LastWins(a, n) ==
  IF n = 0 THEN {}
  ELSE LET bestDay == BestDay_LastWins(a, n - 1)
       IN IF bestDay = {} \/ \A b \in bestDay : a[n].mood_score >= b.mood
          THEN {[date |-> a[n].created_at, mood |-> a[n].mood_score]}
          ELSE bestDay

\* for (const entry of moodEntries) if (!bestDay || entry.mood_score > bestDay.mood)
RECURSIVE BestDay(_, _)
BestDay(a, n) ==
  IF n = 0 THEN {}
  ELSE LET bestDay == BestDay(a, n - 1)
       IN IF bestDay = {} \/ \A b \in bestDay : a[n].mood_score > b.mood
          THEN {[date |-> a[n].created_at, mood |-> a[n].mood_score]}
          ELSE bestDay

RECURSIVE WorstDay(_, _)
WorstDay(a, n) ==
  IF n = 0 THEN {}
  ELSE LET worstDay == WorstDay(a, n - 1)
       IN IF worstDay = {} \/ \A w \in worstDay : a[n].mood_score < w.mood
          THEN {[date |-> a[n].created_at, mood |-> a[n].mood_score]}
          ELSE worstDay

MoodTrend(a) ==
  IF Len(a) >= 4
  THEN LET midpoint == Len(a) \div 2
           firstHalfAvg == Divide(SumScores(a, 1, midpoint), midpoint)
           secondHalfAvg == Divide(SumScores(a, Len(a) - midpoint + 1, Len(a)), midpoint)
           difference == Subtract(secondHalfAvg, firstHalfAvg)
       IN IF GreaterThanHalves(difference, 1) THEN "improving"
          ELSE IF LessThanHalves(difference, 0 - 1) THEN "declining"
          ELSE "stable"
  ELSE "stable"

\* The zero counts are kept.
MoodDistribution_Unfiltered(a) ==
  [i \in 1 .. 10 |-> [score |-> i,
                      count |-> Cardinality({k \in DOMAIN a : a[k].mood_score = i})]]

\* distributionMap over 1..10, then map, filter(count > 0) and sort by score.
MoodDistribution(a) ==
  LET distributionMap ==
        [i \in 1 .. 10 |-> Cardinality({k \in DOMAIN a : a[k].mood_score = i})]
      IsCounted(item) == item.count > 0
  IN SelectSeq([i \in 1 .. 10 |-> [score |-> i, count |-> distributionMap[i]]],
               IsCounted)

MoodAnalyticsOf(a) ==
  IF Len(a) = 0
  THEN [mood_trend |-> "stable", total_entries |-> 0, best_day |-> {},
        worst_day |-> {}, mood_distribution |-> <<>>]
  ELSE [mood_trend |-> MoodTrend(a),
        total_entries |-> Len(a),
        best_day |-> BestDay(a, Len(a)),
        worst_day |-> WorstDay(a, Len(a)),
        mood_distribution |-> MoodDistribution(a)]

getMoodAnalytics(st, query) ==
  {Ok(MoodAnalyticsOf(moodEntries), st) :
     moodEntries \in OrderByAsc(SelectInRange(st.mood_entries, query, "created_at"),
                               "created_at")}

(***************************************************************************)
(* The analytics are functions of the stored rows: their specification     *)
(* starts from a store already holding mood entries and runs the query.    *)
(* One entry of u2 was created first, then those of u1, one per tick.      *)
(***************************************************************************)
MoodScores == {1, 2, 3, 10}

\* Lists of h scores: k times x, then y.
ScoreRuns(h) ==
  {[i \in 1 .. h |-> IF i <= k THEN x ELSE y] : k \in 0 .. h, x \in MoodScores, y \in MoodScores}

ScoreLists ==
  UNION {{f \o m \o l : f \in ScoreRuns(n \div 2), l \in ScoreRuns(n \div 2),
                        m \in IF n % 2 = 1 THEN {<<x>> : x \in MoodScores} ELSE {<<>>}} :
           n \in 0 .. MaxEntries}

MoodEntriesOf(scores) ==
  {[id |-> 1, user_id |-> "u2", mood_score |-> 10, notes |-> NULL,
    created_at |-> 0, updated_at |-> 0]} \cup
  {[id |-> i + 1, user_id |-> "u1", mood_score |-> scores[i], notes |-> NULL,
    created_at |-> i, updated_at |-> i] : i \in DOMAIN scores}

MoodQueries ==
  {[user_id |-> "u1", start_date |-> d[1], end_date |-> d[2]] :
     d \in {<<0, MaxEntries + 1>>, <<2, MaxEntries + 1>>, <<1, 3>>, <<5, 4>>}} \cup
  {[user_id |-> "u2", start_date |-> 0, end_date |-> MaxEntries + 1]}

\* A query procedure given a date range: resp also keeps the query.
RespondTo(op, query, r) ==
  /\ store' = r.store
  /\ resp' = [op |-> op, user_id |-> query.user_id, status |-> r.status,
              value |-> r.value, query |-> query]
  /\ UNCHANGED now

GetMoodAnalytics ==
  \E query \in MoodQueries :
    \E r \in getMoodAnalytics(store, query) : RespondTo("getMoodAnalytics", query, r)

MoodInit ==
  /\ \E scores \in ScoreLists :
       /\ store = [EmptyStore EXCEPT !.mood_entries = MoodEntriesOf(scores)]
       /\ now = Len(scores) + 1
  /\ resp = [op |-> "none", user_id |-> NULL, status |-> "ok", value |-> NULL]

MoodNext == GetMoodAnalytics

MoodSpec == MoodInit /\ [][MoodNext]_vars

\* The in-range entries of a mood analytics query, oldest first.
InRange(query) ==
  OrderByAsc(SelectInRange(store.mood_entries, query, "created_at"), "created_at")

\* The trend of C12, in exact arithmetic.
TrendOf(a) ==
  LET n == Len(a)
      h == n \div 2
      d == SumScores(a, n - h + 1, n) - SumScores(a, 1, h)
  IN IF n < 4 THEN "stable"
     ELSE IF 2 * d > h THEN "improving"
     ELSE IF 2 * d < 0 - h THEN "declining"
     ELSE "stable"

\* C12: the trend of the time-ordered in-range entries is stable for fewer
\* than 4 entries; for n >= 4 and h = n div 2 it is improving if the mean of
\* the last h scores exceeds the mean of the first h by more than 0.5,
\* declining if it is lower by more than 0.5, stable otherwise.
C12_TrendClassification ==
  resp.op = "getMoodAnalytics" =>
    \E a \in InRange(resp.query) : resp.value.mood_trend = TrendOf(a)

Scores(a) == {a[i].mood_score : i \in DOMAIN a}

\* The earliest of the entries of a having the given score, as a day.
EarliestWith(a, score) ==
  LET i == CHOOSE k \in DOMAIN a :
             /\ a[k].mood_score = score
             /\ \A j \in DOMAIN a : a[j].mood_score = score => a[k].created_at <= a[j].created_at
  IN [date |-> a[i].created_at, mood |-> score]

\* C13: best_day is the earliest in-range entry having the maximum score,
\* worst_day the earliest in-range entry having the minimum score; both are
\* null exactly when no entry is in range.
C13_BestWorstDay ==
  resp.op = "getMoodAnalytics" =>
    LET r == resp
    IN \A a \in InRange(resp.query) :
        IF Len(a) = 0
        THEN r.value.best_day = {} /\ r.value.worst_day = {}
        ELSE LET max == CHOOSE x \in Scores(a) : \A y \in Scores(a) : x >= y
                 min == CHOOSE x \in Scores(a) : \A y \in Scores(a) : x <= y
             IN /\ r.value.best_day = {EarliestWith(a, max)}
                /\ r.value.worst_day = {EarliestWith(a, min)}

\* The analytics of a range were just returned in which the best score
\* occurs on a later day again, and so does the worst.
C13_Witness ==
  /\ resp.op = "getMoodAnalytics"
  /\ \E a \in InRange(resp.query) :
       /\ \E b \in resp.value.best_day :
            \E i \in DOMAIN a : a[i].mood_score = b.mood /\ a[i].created_at > b.date
       /\ \E w \in resp.value.worst_day :
            \E i \in DOMAIN a : a[i].mood_score = w.mood /\ a[i].created_at > w.date
       /\ \A b \in resp.value.best_day : \A w \in resp.value.worst_day : b.mood > w.mood

RECURSIVE SumCounts(_, _)
SumCounts(d, n) == IF n = 0 THEN 0 ELSE d[n].count + SumCounts(d, n - 1)

\* C14: mood_distribution holds, for each score that occurs among the
\* in-range entries, exactly one pair of the score and the number of entries
\* having it; no pair has count zero, the pairs are in ascending order of
\* score and the counts add up to total_entries.
C14_MoodDistribution ==
  resp.op = "getMoodAnalytics" =>
    LET r == resp
    IN \A a \in InRange(resp.query) :
        LET d == r.value.mood_distribution
        IN /\ {d[i].score : i \in DOMAIN d} = Scores(a)
           /\ \A i \in DOMAIN d :
                /\ d[i].score \in 1 .. 10
                /\ d[i].count = Cardinality({k \in DOMAIN a : a[k].mood_score = d[i].score})
                /\ d[i].count > 0
           /\ \A i, j \in DOMAIN d : i < j => d[i].score < d[j].score
           /\ SumCounts(d, Len(d)) = r.value.total_entries
           /\ r.value.total_entries = Len(a)

\* A distribution of several scores, one of them counted more than once, was
\* just returned.
C14_Witness ==
  /\ resp.op = "getMoodAnalytics"
  /\ Len(resp.value.mood_distribution) >= 2
  /\ \E i \in DOMAIN resp.value.mood_distribution :
       resp.value.mood_distribution[i].count >= 2

----------------------------------------------------------------------------
(***************************************************************************)
(* Strings that a handler looks into are sequences of characters.          *)
(***************************************************************************)
Letters ==
  [c \in {"A", "B", "D", "N", "O", "P", "R", "T", "W"} |->
     CASE c = "A" -> "a" [] c = "B" -> "b" [] c = "D" -> "d" [] c = "N" -> "n"
       [] c = "O" -> "o" [] c = "P" -> "p" [] c = "R" -> "r" [] c = "T" -> "t"
       [] c = "W" -> "w"]

Digits ==
  [c \in {"0", "1", "2", "3", "4", "5", "6", "7", "8", "9"} |->
     CASE c = "0" -> 0 [] c = "1" -> 1 [] c = "2" -> 2 [] c = "3" -> 3
       [] c = "4" -> 4 [] c = "5" -> 5 [] c = "6" -> 6 [] c = "7" -> 7
       [] c = "8" -> 8 [] c = "9" -> 9]

toLowerCase(s) == [i \in DOMAIN s |-> IF s[i] \in DOMAIN Letters THEN Letters[s[i]] ELSE s[i]]

trim(s) ==
  LET inked == {i \in DOMAIN s : s[i] # " "}
  IN IF inked = {} THEN <<>>
     ELSE LET first == CHOOSE i \in inked : \A j \in inked : i <= j
              last == CHOOSE i \in inked : \A j \in inked : i >= j
          IN SubSeq(s, first, last)

\* s has the literal at position i.
MatchAt(s, i, literal) ==
  /\ i + Len(literal) - 1 <= Len(s)
  /\ \A k \in DOMAIN literal : s[i + k - 1] = literal[k]

includes(s, literal) == \E i \in 1 .. Len(s) + 1 : MatchAt(s, i, literal)

\* The position after the longest run from i of characters of the class.
After(s, i, class) ==
  CHOOSE j \in i .. Len(s) + 1 :
    /\ \A k \in i .. j - 1 : s[k] \in class
    /\ j <= Len(s) => s[j] \notin class

RECURSIVE parseInt(_)
parseInt(digits) ==
  IF digits = <<>> THEN 0
  ELSE 10 * parseInt(SubSeq(digits, 1, Len(digits) - 1)) + Digits[digits[Len(digits)]]

(***************************************************************************)
(* Adherence analytics: the frequency parser.  A daily dose count is a     *)
(* fraction num / den (1/7 for weekly).                                    *)
(***************************************************************************)
\* /(\d+)\s*(?:x|times?)\s*(?:per\s*)?(?:day|daily)/ matched with the digits
\* starting at i: the set holding the digits matched, empty without a match.
NumericMatchAt(freq, i) ==
  LET afterDigits == After(freq, i, DOMAIN Digits)
      unit == After(freq, afterDigits, {" "})
      afterUnit == IF MatchAt(freq, unit, <<"x">>) THEN {unit + 1}
                   ELSE IF MatchAt(freq, unit, <<"t", "i", "m", "e", "s">>) THEN {unit + 5}
                   ELSE IF MatchAt(freq, unit, <<"t", "i", "m", "e">>) THEN {unit + 4}
                   ELSE {}
      Period(j) ==
        LET per == After(freq, j, {" "})
            day == IF MatchAt(freq, per, <<"p", "e", "r">>) THEN After(freq, per + 3, {" "}) ELSE per
        IN MatchAt(freq, day, <<"d", "a", "y">>) \/ MatchAt(freq, day, <<"d", "a", "i", "l", "y">>)
  IN IF afterDigits > i /\ \E j \in afterUnit : Period(j)
     THEN {SubSeq(freq, i, afterDigits - 1)}
     ELSE {}

\* The leftmost match.
numericMatch(freq) ==
  LET starts == {i \in DOMAIN freq : NumericMatchAt(freq, i) # {}}
  IN IF starts = {} THEN {}
     ELSE NumericMatchAt(freq, CHOOSE i \in starts : \A j \in starts : i <= j)

parseFrequencyToDailyDoses(frequency) ==
  LET freq == trim(toLowerCase(frequency))
  IN IF numericMatch(freq) # {}
     THEN [num |-> parseInt(CHOOSE d \in numericMatch(freq) : TRUE), den |-> 1]
     ELSE IF includes(freq, <<"t", "w", "i", "c", "e">>) \/ includes(freq, <<"2">>) \/ freq = <<"b", "i", "d">>
     THEN [num |-> 2, den |-> 1]
     ELSE IF includes(freq, <<"t", "h", "r", "e", "e">>) \/ includes(freq, <<"3">>) \/ freq = <<"t", "i", "d">>
     THEN [num |-> 3, den |-> 1]
     ELSE IF includes(freq, <<"f", "o", "u", "r">>) \/ includes(freq, <<"4">>) \/ freq = <<"q", "i", "d">>
     THEN [num |-> 4, den |-> 1]
     ELSE IF includes(freq, <<"d", "a", "i", "l", "y">>) \/ includes(freq, <<"o", "n", "c", "e">>) \/ freq = <<"q", "d">>
     THEN [num |-> 1, den |-> 1]
     ELSE IF includes(freq, <<"w", "e", "e", "k", "l", "y">>)
     THEN [num |-> 1, den |-> 7]
     ELSE IF includes(freq, <<"a", "s", " ", "n", "e", "e", "d", "e", "d">>) \/ includes(freq, <<"p", "r", "n">>)
     THEN [num |-> 0, den |-> 1]
     ELSE [num |-> 1, den |-> 1]

(***************************************************************************)
(* The parser is a function of a frequency string: its specification       *)
(* starts from a store holding one medication and parses its frequency.    *)
(***************************************************************************)
FrequencyCounts ==
  {<<>>,
   <<"o", "n", "c", "e">>,
   <<"t", "w", "i", "c", "e">>,
   <<"2">>,
   <<"3">>,
   <<"t", "h", "r", "e", "e">>,
   <<"f", "o", "u", "r">>,
   <<"4">>,
   <<"5">>,
   <<"1", "2">>}

FrequencyUnits ==
  {<<>>,
   <<" ">>,
   <<"x", " ">>,
   <<" ", "t", "i", "m", "e", "s", " ">>,
   <<" ", "t", "i", "m", "e", "s", " ", "p", "e", "r", " ">>}

FrequencyPeriods ==
  {<<"d", "a", "i", "l", "y">>,
   <<"d", "a", "y">>,
   <<"w", "e", "e", "k", "l", "y">>,
   <<"a", "s", " ", "n", "e", "e", "d", "e", "d">>,
   <<"P", "R", "N">>,
   <<"b", "i", "d">>,
   <<"m", "o", "n", "t", "h", "l", "y">>,
   <<"D", "a", "i", "l", "y", " ">>}

Frequencies == {c \o u \o p : c \in FrequencyCounts, u \in FrequencyUnits, p \in FrequencyPeriods}

\* A medication or supplement row as the create handlers store it, with the
\* frequency column.
Item(id, user_id, frequency, is_active) ==
  [id |-> id, user_id |-> user_id, is_active |-> is_active,
   created_at |-> 0, updated_at |-> 0, frequency |-> frequency]

ParseFrequencyToDailyDoses ==
  \E m \in store.medications :
    /\ resp' = [op |-> "parseFrequencyToDailyDoses", user_id |-> m.user_id,
                status |-> "ok", value |-> parseFrequencyToDailyDoses(m.frequency),
                frequency |-> m.frequency]
    /\ UNCHANGED <<store, now>>

FrequencyInit ==
  /\ \E frequency \in Frequencies :
       store = Insert(EmptyStore, "medications", Item(1, "u1", frequency, TRUE))
  /\ now = 0
  /\ resp = [op |-> "none", user_id |-> NULL, status |-> "ok", value |-> NULL]

FrequencyNext == ParseFrequencyToDailyDoses

FrequencySpec == FrequencyInit /\ [][FrequencyNext]_vars

\* C15: a frequency containing twice or 2 gives 2 doses a day, else three or
\* 3 gives 3, else four or 4 gives 4, else daily or once gives 1, else weekly
\* gives 1/7, else as needed or prn gives 0, and any other string gives 1;
\* every frequency naming a weekly schedule gives 1/7 and every as needed or
\* prn frequency gives 0.
C15_FrequencyKeywords ==
  resp.op = "parseFrequencyToDailyDoses" =>
    LET f == trim(toLowerCase(resp.frequency))
        Has1(w) == includes(f, w)
        weekly == Has1(<<"w", "e", "e", "k", "l", "y">>)
        needed == Has1(<<"a", "s", " ", "n", "e", "e", "d", "e", "d">>) \/ Has1(<<"p", "r", "n">>)
        rate == IF Has1(<<"t", "w", "i", "c", "e">>) \/ Has1(<<"2">>) THEN <<2, 1>>
                ELSE IF Has1(<<"t", "h", "r", "e", "e">>) \/ Has1(<<"3">>) THEN <<3, 1>>
                ELSE IF Has1(<<"f", "o", "u", "r">>) \/ Has1(<<"4">>) THEN <<4, 1>>
                ELSE IF Has1(<<"d", "a", "i", "l", "y">>) \/ Has1(<<"o", "n", "c", "e">>) THEN <<1, 1>>
                ELSE IF weekly THEN <<1, 7>>
                ELSE IF needed THEN <<0, 1>>
                ELSE <<1, 1>>
        value == <<resp.value.num, resp.value.den>>
    IN /\ weekly => value = <<1, 7>>
       /\ (needed /\ ~weekly) => value = <<0, 1>>
       /\ (~weekly /\ ~needed) => value = rate

(***************************************************************************)
(* Adherence analytics.  Here a timestamp is a whole number of days: every *)
(* Date is a midnight, UTC being the server's time zone, and day 0 is      *)
(* Sunday 1 January 2023.  A week key "YYYY-WW" is the pair <<YYYY, WW>>:   *)
(* with four and two digits localeCompare orders the strings as the pairs. *)
(* item_name is left out of the analytics.                                 *)
(***************************************************************************)
isLeapYear(year) == year % 4 = 0 /\ (year % 100 # 0 \/ year % 400 = 0)

\* new Date(year, 0, 1)
RECURSIVE startOfYear(_)
startOfYear(year) ==
  IF year = 2023 THEN 0
  ELSE startOfYear(year - 1) + (IF isLeapYear(year - 1) THEN 366 ELSE 365)

RECURSIVE YearFrom(_, _)
YearFrom(year, date) ==
  IF date < startOfYear(year + 1) THEN year ELSE YearFrom(year + 1, date)

\* date.getFullYear(), for a date of 2023 or later
getFullYear(date) == YearFrom(2023, date)

\* date.getDay(): 0 is Sunday
getDay(date) == date % 7

\* Math.ceil(a / b) for a >= 0 and b > 0
Ceil(a, b) == (a + b - 1) \div b

getWeekString(date) ==
  LET year == getFullYear(date)
      dayOfYear == date - startOfYear(year)
      weekNumber == Ceil(dayOfYear + getDay(startOfYear(year)) + 1, 7)
  IN <<year, weekNumber>>

\* a.week.localeCompare(b.week) < 0
WeekBefore(a, b) == a[1] < b[1] \/ (a[1] = b[1] /\ a[2] < b[2])

\* Math.round(dailyDoses * daysDiff); dailyDoses is an integer or 1 / 7.
ExpectedDoses(dailyDoses, daysDiff) ==
  IF dailyDoses.num = 0 THEN 0
  ELSE IF dailyDoses.den = 1 THEN dailyDoses.num * daysDiff
  ELSE Round(Times(Divide(dailyDoses.num, dailyDoses.den), daysDiff))

\* Math.floor((endDate - startDate) / millisecondsPerDay) + 1
daysDiff(startDate, endDate, millisecondsPerDay) ==
  ((endDate - startDate) \div millisecondsPerDay) + 1

calculateExpectedDoses(frequency, startDate, endDate) ==
  ExpectedDoses(parseFrequencyToDailyDoses(frequency), daysDiff(startDate, endDate, 1))

\* The loop over the days, today first; it leaves once streakDays exceeds 365.
StreakDays(logs, dailyDoses, today) ==
  CHOOSE streakDays \in 0 .. 366 :
    /\ \/ streakDays > 365
       \/ Cardinality({log \in logs : log.taken_at = today - streakDays})
            * dailyDoses.den < dailyDoses.num
    /\ \A i \in 0 .. streakDays - 1 :
         Cardinality({log \in logs : log.taken_at = today - i}) * dailyDoses.den
           >= dailyDoses.num

\* logs: the rows of one item.
calculateStreakDays(logs, frequency, today) ==
  IF logs = {} \/ parseFrequencyToDailyDoses(frequency).num = 0 THEN 0
  ELSE StreakDays(logs, parseFrequencyToDailyDoses(frequency), today)

\* expected > 0 ? Math.round((doses / expected) * 100) : 0, then
\* Math.min(rate, 100)
CappedRate(doses, expected) ==
  IF expected > 0 /\ Percent(doses, expected) < 100 THEN Percent(doses, expected)
  ELSE IF expected > 0 THEN 100
  ELSE 0

\* What one pass of the loop pushes for its currentDate: the week of the
\* date, the logs grouped under that week and the doses expected from the
\* date to six days later, clipped to the range.
WeekOf(currentDate, logs, frequency, query) ==
  [week |-> getWeekString(currentDate),
   rate |-> CappedRate(
              Cardinality({log \in logs :
                             getWeekString(log.taken_at) = getWeekString(currentDate)}),
              calculateExpectedDoses(
                frequency,
                IF currentDate < query.start_date THEN query.start_date ELSE currentDate,
                IF currentDate + 6 > query.end_date THEN query.end_date
                ELSE currentDate + 6))]

\* a before b in weeks.sort((a, b) => a.week.localeCompare(b.week)); the
\* sort is stable.
SortsBefore(a, b) ==
  \/ WeekBefore(a.week, b.week)
  \/ (a.week = b.week /\ a.pass < b.pass)

\* The passes of the loop: currentDate is startDate, startDate + 7, ... up to
\* endDate.
Passes(query) ==
  IF query.start_date > query.end_date THEN {}
  ELSE 1 .. ((query.end_date - query.start_date) \div 7 + 1)

\* The passes that push: no earlier pass has the same week.
Pushing(query) ==
  {i \in Passes(query) :
     \A j \in 1 .. i - 1 :
       getWeekString(query.start_date + 7 * (j - 1))
         # getWeekString(query.start_date + 7 * (i - 1))}

\* What the loop pushed, each week with the pass that pushed it.
Pushed(logs, frequency, query) ==
  {WeekOf(query.start_date + 7 * (i - 1), logs, frequency, query) @@ ("pass" :> i) :
     i \in Pushing(query)}

\* The pushed weeks in sorted order.
Sorted(pushed) ==
  [k \in 1 .. Cardinality(pushed) |->
     [week |-> (CHOOSE w \in pushed :
                  Cardinality({v \in pushed : SortsBefore(v, w)}) = k - 1).week,
      rate |-> (CHOOSE w \in pushed :
                  Cardinality({v \in pushed : SortsBefore(v, w)}) = k - 1).rate]]

calculateWeeklyAdherence(logs, frequency, query) ==
  IF parseFrequencyToDailyDoses(frequency).num = 0 THEN <<>>
  ELSE First({Sorted(pushed) : pushed \in {Pushed(logs, frequency, query)}})

\* The analytics of one item from its logs and the doses expected of it.
AdherenceWith(item, item_type, logs, total_expected, query, today) ==
  [item_id |-> item.id,
   item_type |-> item_type,
   adherence_rate |-> CappedRate(Cardinality(logs), total_expected),
   total_expected |-> total_expected,
   total_logged |-> Cardinality(logs),
   missed_doses |-> IF total_expected - Cardinality(logs) > 0
                    THEN total_expected - Cardinality(logs) ELSE 0,
   streak_days |-> calculateStreakDays(logs, item.frequency, today),
   weekly_adherence |-> calculateWeeklyAdherence(logs, item.frequency, query)]

\* The analytics of one item; categoryLogs are the in-range logs of the user
\* in the item's category and ref the column naming the item.
AdherenceOf(item, item_type, ref, categoryLogs, query, today) ==
  First({AdherenceWith(item, item_type, logs,
                       calculateExpectedDoses(item.frequency, query.start_date,
                                              query.end_date),
                       query, today) :
           logs \in {{log \in categoryLogs : log[ref] = item.id}}})

RECURSIVE SumRates(_, _)
SumRates(adherence, n) ==
  IF n = 0 THEN 0 ELSE adherence[n].adherence_rate + SumRates(adherence, n - 1)

\* Math.round(sum / length), 0 for an empty list
OverallRate(adherence) ==
  IF Len(adherence) > 0 /\ SumRates(adherence, Len(adherence)) > 0
  THEN Round(Divide(SumRates(adherence, Len(adherence)), Len(adherence)))
  ELSE 0

\* The result built from the analytics of the items.
OverallOf(medication_adherence, supplement_adherence) ==
  [medication_adherence |-> medication_adherence,
   supplement_adherence |-> supplement_adherence,
   overall_medication_rate |-> OverallRate(medication_adherence),
   overall_supplement_rate |-> OverallRate(supplement_adherence)]

\* The result for the medications and supplements selected: the selects have
\* no ORDER BY, so the items come in any order.
OverallAdherenceOf(st, query, today, selectedMedications, selectedSupplements) ==
  {Ok(OverallOf([i \in DOMAIN medications |->
                   AdherenceOf(medications[i], "medication", "medication_id",
                               SelectInRange(st.medication_logs, query, "taken_at"),
                               query, today)],
                [i \in DOMAIN supplements |->
                   AdherenceOf(supplements[i], "supplement", "supplement_id",
                               SelectInRange(st.supplement_logs, query, "taken_at"),
                               query, today)]), st) :
     medications \in Arrays(selectedMedications),
     supplements \in Arrays(selectedSupplements)}

\* Every item of the user is selected, active or not.
getAdherenceAnalytics_AllItems(st, query, today) ==
  OverallAdherenceOf(st, query, today,
                     SelectByUser(st.medications, query.user_id),
                     SelectByUser(st.supplements, query.user_id))

getAdherenceAnalytics(st, query, today) ==
  OverallAdherenceOf(st, query, today,
                     SelectActiveByUser(st.medications, query.user_id),
                     SelectActiveByUser(st.supplements, query.user_id))

(***************************************************************************)
(* The adherence analytics are functions of the stored rows, the query and *)
(* the day the call is made: their specification starts from a store that  *)
(* holds items and logs and runs the query.  u1 has medication 1 with the   *)
(* frequency and the logs under study and medication 2, daily, logged every *)
(* other day and possibly deactivated; u2 has medication 3; u1 may have one *)
(* supplement.  Monday 1 January 2024 is day 365.                           *)
(***************************************************************************)
AdherenceFrequencies ==
  {<<"d", "a", "i", "l", "y">>,
   <<"t", "w", "i", "c", "e", " ", "d", "a", "i", "l", "y">>,
   <<"w", "e", "e", "k", "l", "y">>,
   <<"a", "s", " ", "n", "e", "e", "d", "e", "d">>,
   <<"4", " ", "t", "i", "m", "e", "s", " ", "d", "a", "i", "l", "y">>}

\* The days of the logs of one item, one element per log.
EveryDay(from, to) == [i \in 1 .. to - from + 1 |-> from + i - 1]

LogPatterns ==
  {<<>>,
   EveryDay(365, 371),
   <<365, 367, 369, 371>>,
   EveryDay(365, 371) \o EveryDay(365, 371),
   [i \in 1 .. 23 |-> 365 + ((i - 1) % 10)]}

LogRows(ref, item_id, user_id, days, firstId) ==
  {[id |-> firstId + i - 1, user_id |-> user_id, taken_at |-> days[i],
    created_at |-> days[i]] @@ (ref :> item_id) : i \in DOMAIN days}

SupplementChoices ==
  {[frequency |-> <<>>, days |-> <<>>],
   [frequency |-> <<"w", "e", "e", "k", "l", "y">>, days |-> <<365, 367, 369, 371>>]}

AdherenceStore(frequency, days, active, supplement) ==
  [EmptyStore EXCEPT
     !.medications = {Item(1, "u1", frequency, TRUE),
                      Item(2, "u1", <<"d", "a", "i", "l", "y">>, active),
                      Item(3, "u2", <<"d", "a", "i", "l", "y">>, TRUE)},
     !.medication_logs =
        LogRows("medication_id", 1, "u1", days, 1)
        \cup LogRows("medication_id", 2, "u1", <<365, 367, 369, 371>>, Len(days) + 1)
        \cup LogRows("medication_id", 3, "u2", <<365>>, Len(days) + 5),
     !.supplements = IF supplement.frequency = <<>> THEN {}
                     ELSE {Item(1, "u1", supplement.frequency, TRUE)},
     !.supplement_logs = LogRows("supplement_id", 1, "u1", supplement.days, 1)]

\* 1-7 January, 1-10 January, Wednesday 3 to Monday 8 January and 1-14
\* January, for u1; 1-7 January for u2.
AdherenceQueries ==
  {[user_id |-> "u1", start_date |-> d[1], end_date |-> d[2]] :
     d \in {<<365, 371>>, <<365, 374>>, <<367, 372>>, <<365, 378>>}} \cup
  {[user_id |-> "u2", start_date |-> 365, end_date |-> 371]}

GetAdherenceAnalytics(queries) ==
  \E query \in queries :
    \E r \in getAdherenceAnalytics(store, query, now) :
      RespondTo("getAdherenceAnalytics", query, r)

AdherenceInit ==
  /\ \E frequency \in AdherenceFrequencies, days \in LogPatterns,
        active \in BOOLEAN, supplement \in SupplementChoices :
       store = AdherenceStore(frequency, days, active, supplement)
  /\ now \in {371, 378}
  /\ resp = [op |-> "none", user_id |-> NULL, status |-> "ok", value |-> NULL]

AdherenceNext == GetAdherenceAnalytics(AdherenceQueries)

AdherenceSpec == AdherenceInit /\ [][AdherenceNext]_vars

\* The entries of both lists of an adherence result, each with its table,
\* its log table and the column of the log that names the item.
Kinds ==
  {[list |-> "medication_adherence", items |-> "medications",
    logs |-> "medication_logs", ref |-> "medication_id", type |-> "medication"],
   [list |-> "supplement_adherence", items |-> "supplements",
    logs |-> "supplement_logs", ref |-> "supplement_id", type |-> "supplement"]}

Entries(kind) == {resp.value[kind.list][i] : i \in DOMAIN resp.value[kind.list]}

\* The stored item an entry is about.
ItemOf(kind, entry) == CHOOSE item \in store[kind.items] : item.id = entry.item_id

\* The logs of the entry's item that the query's user made inside the range.
LogsOf(kind, entry) ==
  {log \in SelectInRange(store[kind.logs], resp.query, "taken_at") :
     log[kind.ref] = entry.item_id}

\* num / den rounded to the nearest integer, a half going up, exactly.
RoundHalfUp(num, den) == (2 * num + den) \div (2 * den)


\* round(daily_rate * inclusive_day_count) of an item over the query's range
ExpectedOver(item, start_date, end_date) ==
  LET daily_rate == parseFrequencyToDailyDoses(item.frequency)
  IN RoundHalfUp(daily_rate.num * (end_date - start_date + 1), daily_rate.den)

\* C16: every listed item has total_expected = round(daily rate * inclusive
\* days), adherence_rate = min(100, round(logged / expected * 100)) when
\* something is expected and 0 otherwise, and missed_doses = max(0, expected
\* - logged); the rate is within 0..100 and missed_doses is not negative.
C16_ExpectedRateMissed ==
  resp.op = "getAdherenceAnalytics" =>
    \A kind \in Kinds : \A entry \in Entries(kind) :
      LET expected == ExpectedOver(ItemOf(kind, entry), resp.query.start_date,
                                   resp.query.end_date)
          logged == Cardinality(LogsOf(kind, entry))
      IN /\ entry.total_expected = expected
         /\ entry.total_logged = logged
         /\ entry.adherence_rate =
              (IF expected > 0 THEN Min(100, RoundHalfUp(100 * logged, expected)) ELSE 0)
         /\ entry.missed_doses = Max(0, expected - logged)
         /\ entry.adherence_rate \in 0 .. 100
         /\ entry.missed_doses >= 0

RECURSIVE SumOfRates(_, _)
SumOfRates(list, n) ==
  IF n = 0 THEN 0 ELSE list[n].adherence_rate + SumOfRates(list, n - 1)

\* C17: each list holds exactly the active items of the query's user, once
\* each, counting only the logs of that item; an inactive item is in neither
\* list; the overall rate of a category is the mean of the listed rates
\* rounded to the nearest integer, and 0 when the list is empty.
C17_ActiveItemsAndOverallRates ==
  resp.op = "getAdherenceAnalytics" =>
    \A kind \in Kinds :
      LET list == resp.value[kind.list]
          overall == IF kind.type = "medication" THEN resp.value.overall_medication_rate
                     ELSE resp.value.overall_supplement_rate
      IN /\ {entry.item_id : entry \in Entries(kind)} =
              {item.id : item \in SelectActiveByUser(store[kind.items], resp.query.user_id)}
         /\ \A i, j \in DOMAIN list : list[i].item_id = list[j].item_id => i = j
         /\ \A entry \in Entries(kind) :
              /\ entry.item_type = kind.type
              /\ entry.total_logged = Cardinality(LogsOf(kind, entry))
         /\ overall = (IF Len(list) = 0 THEN 0
                       ELSE RoundHalfUp(SumOfRates(list, Len(list)), Len(list)))

\* A call listed one medication, whose rate is the overall rate, and left
\* out a deactivated medication of the same user that has logs in the range.
C17_Witness ==
  /\ resp.op = "getAdherenceAnalytics"
  /\ Len(resp.value.medication_adherence) = 1
  /\ resp.value.overall_medication_rate = resp.value.medication_adherence[1].adherence_rate
  /\ resp.value.overall_medication_rate > 0
  /\ \E item \in store.medications :
       /\ item.user_id = resp.query.user_id
       /\ ~item.is_active
       /\ \E log \in SelectInRange(store.medication_logs, resp.query, "taken_at") :
            log.medication_id = item.id

\* The days of the query's range that fall in the week bucket.
DaysOfWeek(week) ==
  {date \in resp.query.start_date .. resp.query.end_date : getWeekString(date) = week}

\* The week buckets that overlap the query's range.
WeeksOverlapping == {getWeekString(date) : date \in resp.query.start_date .. resp.query.end_date}

Earliest(days) == CHOOSE date \in days : \A other \in days : date <= other
Latest(days) == CHOOSE date \in days : \A other \in days : date >= other

\* C19: the weekly_adherence of a scheduled item has one entry for each week
\* bucket overlapping the range and no other, in ascending order of week key;
\* an entry's rate is min(100, round(logs in the bucket / doses expected over
\* the bucket's days inside the range * 100)), 0 when none is expected, so
\* every in-range log is counted in one bucket; an as-needed item has none.
C19_WeeklyAdherence ==
  resp.op = "getAdherenceAnalytics" =>
    \A kind \in Kinds : \A entry \in Entries(kind) :
      LET item == ItemOf(kind, entry)
          weekly == entry.weekly_adherence
      IN IF parseFrequencyToDailyDoses(item.frequency).num = 0 THEN weekly = <<>>
         ELSE /\ {weekly[i].week : i \in DOMAIN weekly} = WeeksOverlapping
              /\ \A i, j \in DOMAIN weekly :
                   i < j => WeekBefore(weekly[i].week, weekly[j].week)
              /\ \A i \in DOMAIN weekly :
                   LET days == DaysOfWeek(weekly[i].week)
                       expected == ExpectedOver(item, Earliest(days), Latest(days))
                       logged == Cardinality({log \in LogsOf(kind, entry) :
                                                log.taken_at \in days})
                   IN weekly[i].rate =
                        (IF expected > 0
                         THEN Min(100, RoundHalfUp(100 * logged, expected)) ELSE 0)

(***************************************************************************)
(* Streaks.  The specification starts from a store in which medication 1   *)
(* of u1 was logged on a run of days: LongRun days or 366 days up to 14     *)
(* January 2024 (day 378), the week 8-14 January once or twice a day, 8-13  *)
(* January, or never.  The call is made on 13 or 14 January, over the years *)
(* 2023-2024 up to 14 January, over 8-14 January or over 11-16 January.     *)
(***************************************************************************)
StreakFrequencies ==
  {<<"d", "a", "i", "l", "y">>,
   <<"t", "w", "i", "c", "e", " ", "d", "a", "i", "l", "y">>,
   <<"w", "e", "e", "k", "l", "y">>,
   <<"a", "s", " ", "n", "e", "e", "d", "e", "d">>}

StreakRuns ==
  {<<>>,
   EveryDay(379 - LongRun, 378),
   EveryDay(13, 378),
   EveryDay(372, 378),
   EveryDay(372, 378) \o EveryDay(372, 378),
   EveryDay(372, 377)}

StreakQueries ==
  {[user_id |-> "u1", start_date |-> d[1], end_date |-> d[2]] :
     d \in {<<0, 378>>, <<372, 378>>, <<375, 380>>}}

StreakInit ==
  /\ \E frequency \in StreakFrequencies, days \in StreakRuns :
       store = AdherenceStore(frequency, days, FALSE, [frequency |-> <<>>, days |-> <<>>])
  /\ now \in {377, 378}
  /\ resp = [op |-> "none", user_id |-> NULL, status |-> "ok", value |-> NULL]

StreakNext == GetAdherenceAnalytics(StreakQueries)

StreakSpec == StreakInit /\ [][StreakNext]_vars

\* The item of the entry met its daily dose on that day, by its logs in the
\* query's range.
MetDose(kind, entry, date) ==
  LET dose == parseFrequencyToDailyDoses(ItemOf(kind, entry).frequency)
  IN Cardinality({log \in LogsOf(kind, entry) : log.taken_at = date}) * dose.den
       >= dose.num

\* The number of consecutive days, today first and going back, on which the
\* dose was met; no log is older than day 0.
RunOfDays(kind, entry) ==
  CHOOSE run \in 0 .. now + 1 :
    /\ ~MetDose(kind, entry, now - run)
    /\ \A i \in 0 .. run - 1 : MetDose(kind, entry, now - i)

Scheduled(kind, entry) ==
  parseFrequencyToDailyDoses(ItemOf(kind, entry).frequency).num # 0

\* C18: streak_days is the number of consecutive days, counted back from
\* today, on which the doses logged inside the query's range meet the daily
\* dose; it is 0 for an as-needed item and 0 when today does not meet the
\* dose.
C18_StreakIsRunOfDays ==
  resp.op = "getAdherenceAnalytics" =>
    \A kind \in Kinds : \A entry \in Entries(kind) :
      /\ entry.streak_days =
           (IF Scheduled(kind, entry) THEN RunOfDays(kind, entry) ELSE 0)
      /\ ~MetDose(kind, entry, now) => entry.streak_days = 0

(***************************************************************************)
(* Habit analytics.  Timestamps are whole days as above.  A number the     *)
(* handler rounds to two decimals, Math.round(x * 100) / 100, is kept in    *)
(* hundredths: 71.43 is 7143; a number that may be NaN is the set of at     *)
(* most one such value.  The key of a week, the ISO date of its first day,  *)
(* is that day: the two sort alike.  Names are not modelled, so ORDER BY    *)
(* name is any order.                                                       *)
(***************************************************************************)
\* Math.ceil((end_date - start_date) / day) + 1
totalDays(start_date, end_date, millisecondsPerDay) ==
  Ceil(end_date - start_date, millisecondsPerDay) + 1

\* completionDates in ascending order, one element per completion.
allDates(completions) ==
  [k \in 1 .. Cardinality(completions) |->
     CHOOSE date \in {log.completed_at : log \in completions} :
       /\ Cardinality({log \in completions : log.completed_at < date}) < k
       /\ k <= Cardinality({log \in completions : log.completed_at <= date})]

\* The first loop, over the dates from the latest one: the date at dateIndex
\* is counted when checkDate, endDate at first and then the day before the
\* date counted last, is that date or the day after it; the loop leaves at
\* the first date that is not counted.
CurrentStreak(dates, endDate) ==
  CHOOSE currentStreak \in 0 .. Len(dates) :
    /\ \A dateIndex \in 1 .. currentStreak :
         (IF dateIndex = 1 THEN endDate
          ELSE dates[Len(dates) + 2 - dateIndex] - 1)
           - dates[Len(dates) + 1 - dateIndex] \in {0, 1}
    /\ \/ currentStreak = Len(dates)
       \/ (IF currentStreak = 0 THEN endDate
           ELSE dates[Len(dates) + 1 - currentStreak] - 1)
            - dates[Len(dates) - currentStreak] \notin {0, 1}

\* The values tempStreak takes in the second loop: the lengths of the runs
\* in which each date is the day after the date before it.
TempStreaks(dates) ==
  {i - (CHOOSE from \in 1 .. i :
          /\ \A t \in from .. i - 1 : dates[t + 1] - dates[t] = 1
          /\ from = 1 \/ dates[from] - dates[from - 1] # 1) + 1 :
     i \in 1 .. Len(dates)}

calculateStreaks(dates, endDate) ==
  IF Len(dates) = 0 THEN [current |-> 0, longest |-> 0]
  ELSE [current |-> CurrentStreak(dates, endDate),
        longest |-> CHOOSE longestStreak \in TempStreaks(dates) :
                      \A tempStreak \in TempStreaks(dates) :
                        tempStreak <= longestStreak]

\* The Sunday on or before the date.
getWeekStart(date) == date - getDay(date)

\* weeklyMap as an array sorted by week.
WeeklyCompletions(dates) ==
  [k \in 1 .. Cardinality({getWeekStart(dates[i]) : i \in DOMAIN dates}) |->
     [week |-> CHOOSE week \in {getWeekStart(dates[i]) : i \in DOMAIN dates} :
                 Cardinality({getWeekStart(dates[i]) : i \in DOMAIN dates}
                               \cap (0 .. week)) = k,
      completions |->
        Cardinality({i \in DOMAIN dates :
                       Cardinality({getWeekStart(dates[j]) : j \in DOMAIN dates}
                                     \cap (0 .. getWeekStart(dates[i]))) = k})]]

\* Math.min(streaks.longest / totalDays * 20, 20) for longest >= 1
StreakBonus(longest, days) ==
  IF AtLeast(Times(Divide(longest, days), 20), 20) THEN Divide(20 * days, days)
  ELSE Times(Divide(longest, days), 20)

\* Math.round(Math.min(rate + bonus, 100) * 100)
ScoreOf(rate, bonus) ==
  IF AtLeast(Plus(rate, bonus), 100) THEN 10000
  ELSE Round(Times(Plus(rate, bonus), 100))

\* consistency_score.  Logs lie inside the range, so completions need a
\* range of one day at least and give a streak; without completions the
\* score is 0 / totalDays * 20, which is NaN for totalDays = 0.
ConsistencyScore(totalCompletions, longest, days) ==
  IF days = 0 THEN {}
  ELSE IF totalCompletions = 0 THEN {0}
  ELSE {ScoreOf(Times(Divide(totalCompletions, days), 100),
                StreakBonus(longest, days))}

\* The analytics of one habit from its completion dates.
HabitAnalyticsWith(habit, dates, streaks, days) ==
  [habit_id |-> habit.id,
   completion_rate |-> IF days > 0 THEN Hundredths(Len(dates), days) ELSE 0,
   current_streak |-> streaks.current,
   longest_streak |-> streaks.longest,
   total_completions |-> Len(dates),
   weekly_completions |-> WeeklyCompletions(dates),
   consistency_score |-> ConsistencyScore(Len(dates), streaks.longest, days)]

HabitAnalyticsOf(habit, habitLogs, query) ==
  First({HabitAnalyticsWith(habit, dates, streaks,
                            totalDays(query.start_date, query.end_date, 1)) :
           dates \in {allDates({log \in habitLogs : log.habit_id = habit.id}) \o <<>>},
           streaks \in {calculateStreaks(
                          allDates({log \in habitLogs : log.habit_id = habit.id}) \o <<>>,
                          query.end_date)}})

\* The sum of the first n completion rates, each a number of hundredths
\* divided by 100; 0 + x and x + 0 are x.
RECURSIVE SumOfCompletionRates(_, _)
SumOfCompletionRates(habitAnalytics, n) ==
  IF n = 0 THEN [num |-> 0, den |-> 100, exp |-> 0, err |-> 0, scale |-> 1]
  ELSE IF habitAnalytics[n].completion_rate = 0
    THEN SumOfCompletionRates(habitAnalytics, n - 1)
  ELSE IF SumOfCompletionRates(habitAnalytics, n - 1).num = 0
    THEN Divide(habitAnalytics[n].completion_rate, 100)
  ELSE Plus(SumOfCompletionRates(habitAnalytics, n - 1),
            Divide(habitAnalytics[n].completion_rate, 100))

\* Math.round(sum / length * 100), 0 for no habits
OverallCompletionRate(habitAnalytics) ==
  IF Len(habitAnalytics) = 0
       \/ SumOfCompletionRates(habitAnalytics, Len(habitAnalytics)).num = 0
  THEN 0
  ELSE Round(Times(Over(SumOfCompletionRates(habitAnalytics, Len(habitAnalytics)),
                        Len(habitAnalytics)), 100))

\* The result built from the habits and their analytics.
OverallHabitAnalyticsOf(habits, habitAnalytics) ==
  [total_habits |-> Len(habits),
   active_habits |-> Cardinality({i \in DOMAIN habits : habits[i].is_active}),
   overall_completion_rate |-> OverallCompletionRate(habitAnalytics),
   habits |-> habitAnalytics]

\* Only the active habits of the user are selected.
getHabitAnalytics_ActiveOnly(st, query) ==
  {First({Ok(OverallHabitAnalyticsOf(habits, habitAnalytics), st) :
            habitAnalytics \in
              {[i \in DOMAIN habits |->
                  HabitAnalyticsOf(habits[i],
                                   SelectInRange(st.habit_logs, query, "completed_at"),
                                   query)] \o <<>>}}) :
     habits \in Arrays(SelectActiveByUser(st.habits, query.user_id))}

getHabitAnalytics(st, query) ==
  {First({Ok(OverallHabitAnalyticsOf(habits, habitAnalytics), st) :
            habitAnalytics \in
              {[i \in DOMAIN habits |->
                  HabitAnalyticsOf(habits[i],
                                   SelectInRange(st.habit_logs, query, "completed_at"),
                                   query)] \o <<>>}}) :
     habits \in Arrays(SelectByUser(st.habits, query.user_id))}

(***************************************************************************)
(* The specification of the habit analytics starts from a store in which   *)
(* habit 1 of u1 has the completions under study, habit 2 of u1, possibly   *)
(* deactivated, was completed on 1 and 7 January 2024, and habit 3 is u2's. *)
(***************************************************************************)
CompletionPatterns ==
  {<<>>,
   <<365>>,
   <<365, 367, 369, 371, 374>>,
   EveryDay(365, 374),
   EveryDay(365, 378),
   EveryDay(365, 378) \o EveryDay(365, 378),
   [i \in 1 .. 23 |-> 365 + ((i - 1) % 10)],
   <<374, 376, 378>>,
   <<370, 371, 372, 376, 377>>,
   <<375, 376, 377, 377, 378>>,
   EveryDay(365, 371) \o EveryDay(376, 378)}

HabitRow(id, user_id, is_active) ==
  [id |-> id, user_id |-> user_id, is_active |-> is_active,
   created_at |-> 0, updated_at |-> 0]

CompletionRows(habit_id, user_id, days, firstId) ==
  {[id |-> firstId + i - 1, habit_id |-> habit_id, user_id |-> user_id,
    completed_at |-> days[i], created_at |-> days[i]] : i \in DOMAIN days}

HabitStore(days, active) ==
  [EmptyStore EXCEPT
     !.habits = {HabitRow(1, "u1", TRUE), HabitRow(2, "u1", active),
                 HabitRow(3, "u2", TRUE)},
     !.habit_logs = CompletionRows(1, "u1", days, 1)
                    \cup CompletionRows(2, "u1", <<365, 371>>, Len(days) + 1)
                    \cup CompletionRows(3, "u2", <<365>>, Len(days) + 3)]

\* 1-14 January 2024, 1-7 January, 160 days from 1 January, a range that
\* ends five days before it starts and one that ends the day before it
\* starts, for u1; 1-14 January for u2 and for u3, who has no habits.
HabitQueries ==
  {[user_id |-> "u1", start_date |-> d[1], end_date |-> d[2]] :
     d \in {<<365, 378>>, <<365, 371>>, <<365, 524>>, <<370, 365>>, <<366, 365>>}} \cup
  {[user_id |-> u, start_date |-> 365, end_date |-> 378] : u \in {"u2", "u3"}}

GetHabitAnalytics ==
  \E query \in HabitQueries :
    \E r \in getHabitAnalytics(store, query) : RespondTo("getHabitAnalytics", query, r)

HabitInit ==
  /\ \E days \in CompletionPatterns, active \in BOOLEAN :
       store = HabitStore(days, active)
  /\ now = 378
  /\ resp = [op |-> "none", user_id |-> NULL, status |-> "ok", value |-> NULL]

HabitNext == GetHabitAnalytics

HabitSpec == HabitInit /\ [][HabitNext]_vars

\* The habits of a habit analytics result.
HabitEntries == {resp.value.habits[i] : i \in DOMAIN resp.value.habits}

\* The logs of the habit that the query's user made inside the range.
CompletionsOf(entry) ==
  {log \in SelectInRange(store.habit_logs, resp.query, "completed_at") :
     log.habit_id = entry.habit_id}

\* The inclusive days of the query's range.
DaysOfRange == resp.query.end_date - resp.query.start_date + 1

CompletionDays(entry) == {log.completed_at : log \in CompletionsOf(entry)}

\* completion_rate + min(longest_streak / total_days * 20, 20), capped at
\* 100, in hundredths and times the days of the range.
ScoreTimesDays(entry) ==
  Min(10000 * Cardinality(CompletionsOf(entry))
        + Min(2000 * entry.longest_streak, 2000 * DaysOfRange),
      10000 * DaysOfRange)

\* C22: consistency_score is min(completion_rate + min(longest_streak /
\* total_days * 20, 20), 100) to two decimals: it is a number within 0..100,
\* 100 when rate plus bonus reach 100 and 0 for a habit without completions.
C22_ConsistencyScore ==
  resp.op = "getHabitAnalytics" =>
    \A entry \in HabitEntries :
      /\ entry.consistency_score # {}
      /\ \A score \in entry.consistency_score :
           /\ score >= 0 /\ score <= 10000
           /\ CompletionsOf(entry) = {} => score = 0
           /\ DaysOfRange > 0 =>
                /\ 2 * (score * DaysOfRange - ScoreTimesDays(entry)) <= DaysOfRange
                /\ 2 * (ScoreTimesDays(entry) - score * DaysOfRange) <= DaysOfRange
                /\ ScoreTimesDays(entry) = 10000 * DaysOfRange => score = 10000

\* The consecutive days with a completion, counted back from the end date.
DaysBackFromEnd(entry) ==
  CHOOSE run \in 0 .. Cardinality(CompletionDays(entry)) :
    /\ resp.query.end_date - run \notin CompletionDays(entry)
    /\ \A i \in 0 .. run - 1 : resp.query.end_date - i \in CompletionDays(entry)

\* C23: current_streak is the number of consecutive days with a completion
\* counted back from the range's end date: 0 when the end date has none, and
\* a day without a completion ends it.
C23_CurrentStreak ==
  resp.op = "getHabitAnalytics" =>
    \A entry \in HabitEntries : entry.current_streak = DaysBackFromEnd(entry)

\* The lengths of the runs of consecutive days in a set of days.
RunsOfDays(days) ==
  {CHOOSE len \in 1 .. Cardinality(days) :
     /\ \A i \in 0 .. len - 1 : first + i \in days
     /\ first + len \notin days : first \in days}

\* C24: longest_streak is the length of the longest run of consecutive
\* calendar dates among the completion dates, several completions on one day
\* included; it is 0 exactly when there are no completions.
C24_LongestStreak ==
  resp.op = "getHabitAnalytics" =>
    \A entry \in HabitEntries :
      /\ entry.longest_streak = 0 <=> CompletionsOf(entry) = {}
      /\ \A len \in RunsOfDays(CompletionDays(entry)) : len <= entry.longest_streak
      /\ CompletionsOf(entry) # {} =>
           entry.longest_streak \in RunsOfDays(CompletionDays(entry))

\* The habits of the query's user.
HabitsOfUser == {h \in store.habits : h.user_id = resp.query.user_id}

RECURSIVE SumOfRatesTo(_, _)
SumOfRatesTo(habits, n) ==
  IF n = 0 THEN 0 ELSE habits[n].completion_rate + SumOfRatesTo(habits, n - 1)

C29_StreaksOrdered ==
  resp.op = "getHabitAnalytics" =>
    \A entry \in HabitEntries :
      /\ 0 <= entry.current_streak
      /\ entry.current_streak <= entry.longest_streak
      /\ entry.longest_streak <= entry.total_completions

\* C30: completion_rate and overall_completion_rate are percentages within
\* 0..100.
C30_RatesArePercentages ==
  resp.op = "getHabitAnalytics" =>
    /\ resp.value.overall_completion_rate \in 0 .. 10000
    /\ \A entry \in HabitEntries : entry.completion_rate \in 0 .. 10000

----------------------------------------------------------------------------
(***************************************************************************)
(* Day counts.  The two analytics count the days of a range each in its    *)
(* own way.  Their specification takes ranges whose ends fall at any       *)
(* quarter of a day: a timestamp is a number of quarter days, and the       *)
(* adherence count is the doses expected of a daily item.                  *)
(***************************************************************************)
QuartersPerDay == 4

DayCountQueries ==
  [user_id : {"u1"}, start_date : 0 .. (MaxDay + 1) * QuartersPerDay - 1,
   end_date : 0 .. (MaxDay + 1) * QuartersPerDay - 1]

\* The response of a day count: resp also keeps the range.
CountedDays(op, query, days) ==
  [op |-> op, user_id |-> query.user_id, status |-> "ok", value |-> days,
   query |-> query]

TotalDays ==
  \E query \in DayCountQueries :
    /\ resp' = CountedDays("totalDays", query,
                           totalDays(query.start_date, query.end_date, QuartersPerDay))
    /\ UNCHANGED <<store, now>>

CalculateExpectedDoses ==
  \E query \in DayCountQueries :
    /\ resp' = CountedDays("calculateExpectedDoses", query,
                           ExpectedDoses(parseFrequencyToDailyDoses(<<"d", "a", "i", "l", "y">>),
                                         daysDiff(query.start_date, query.end_date,
                                                  QuartersPerDay)))
    /\ UNCHANGED <<store, now>>

DayCountInit ==
  /\ store = EmptyStore
  /\ now = 0
  /\ resp = [op |-> "none", user_id |-> NULL, status |-> "ok", value |-> NULL]

DayCountNext == TotalDays \/ CalculateExpectedDoses

DayCountSpec == DayCountInit /\ [][DayCountNext]_vars

\* The calendar day a timestamp falls on.
DayOf(date) == date \div QuartersPerDay

\* C21: for a range that starts on day a and ends on day b >= a, at any time
\* of day, the habit engine's total days and the adherence engine's day count
\* are both b - a + 1.
C21_InclusiveDayCount ==
  (resp.op \in {"totalDays", "calculateExpectedDoses"}
     /\ DayOf(resp.query.start_date) <= DayOf(resp.query.end_date)) =>
    resp.value = DayOf(resp.query.end_date) - DayOf(resp.query.start_date) + 1

----------------------------------------------------------------------------
(***************************************************************************)
(* Weekly buckets.  getMoodAnalytics groups the entries in range by the    *)
(* Monday of their week, getHabitAnalytics groups the completions by the   *)
(* Sunday of theirs.  Time is counted in whole days and a week key, the    *)
(* ISO date of the week's first day, is that day.  An average rounded to   *)
(* two decimals is kept in hundredths.                                     *)
(***************************************************************************)
\* The week is keyed by its Sunday.
weekKey_Sunday(date) == date - getDay(date)

\* monday.setDate(date.getDate() - (date.getDay() + 6) % 7) as an ISO date
weekKey(date) == date - ((getDay(date) + 6) % 7)

\* weeklyData[week] after the first n entries.
RECURSIVE weeklyData(_, _, _)
weeklyData(a, week, n) ==
  IF n = 0 THEN [total |-> 0, count |-> 0]
  ELSE IF weekKey(a[n].created_at) = week
       THEN [total |-> weeklyData(a, week, n - 1).total + a[n].mood_score,
             count |-> weeklyData(a, week, n - 1).count + 1]
       ELSE weeklyData(a, week, n - 1)

\* Object.entries(weeklyData) mapped to {week, average} and sorted by week.
WeeklyAverages(a) ==
  [k \in 1 .. Cardinality({weekKey(a[i].created_at) : i \in DOMAIN a}) |->
     First({[week |-> week,
             average |-> Percent(weeklyData(a, week, Len(a)).total,
                                 weeklyData(a, week, Len(a)).count)] :
              week \in {w \in {weekKey(a[i].created_at) : i \in DOMAIN a} :
                          Cardinality({weekKey(a[i].created_at) : i \in DOMAIN a}
                                        \cap (0 .. w)) = k}})]

\* getMoodAnalytics with its weekly_averages.
getWeeklyAverages(st, query) ==
  {Ok([weekly_averages |-> WeeklyAverages(moodEntries)] @@ MoodAnalyticsOf(moodEntries),
      st) :
     moodEntries \in OrderByAsc(SelectInRange(st.mood_entries, query, "created_at"),
                               "created_at")}

(***************************************************************************)
(* The specification of the weekly buckets starts from a store holding     *)
(* mood entries of u1 around the turn of a week (Monday 1 January 2024 is  *)
(* day 365, Sunday 7 January day 371), one entry of u2, and the habits of  *)
(* the habit analytics with the completions under study.                   *)
(***************************************************************************)
WeeklyDays ==
  {<<365, 366, 371>>,
   <<364, 365, 371, 372>>,
   <<366, 366, 370, 373>>,
   <<371, 372, 378, 379>>}

WeeklyScores == {1, 2, 10}

WeeklyMoodEntries(days, scores) ==
  {[id |-> 1, user_id |-> "u2", mood_score |-> 10, notes |-> NULL,
    created_at |-> 371, updated_at |-> 371]} \cup
  {[id |-> i + 1, user_id |-> "u1", mood_score |-> scores[i], notes |-> NULL,
    created_at |-> days[i], updated_at |-> days[i]] : i \in DOMAIN days}

WeeklyCompletionPatterns ==
  {<<365, 367, 369, 371, 374>>,
   <<375, 376, 377, 377, 378>>}

\* 31 December to 15 January, 2 to 13 January and a range that ends before
\* it starts, for u1; 31 December to 15 January for u2.
WeeklyQueries ==
  {[user_id |-> "u1", start_date |-> d[1], end_date |-> d[2]] :
     d \in {<<364, 379>>, <<366, 377>>, <<372, 365>>}} \cup
  {[user_id |-> "u2", start_date |-> 364, end_date |-> 379]}

GetWeeklyAverages ==
  \E query \in WeeklyQueries :
    \E r \in getWeeklyAverages(store, query) : RespondTo("getMoodAnalytics", query, r)

WeeklyInit ==
  /\ \E days \in WeeklyDays, completions \in WeeklyCompletionPatterns :
       \E scores \in [DOMAIN days -> WeeklyScores] :
         store = [HabitStore(completions, TRUE) EXCEPT
                    !.mood_entries = WeeklyMoodEntries(days, scores)]
  /\ now = 380
  /\ resp = [op |-> "none", user_id |-> NULL, status |-> "ok", value |-> NULL]

WeeklyNext ==
  \/ GetWeeklyAverages
  \/ GetHabitAnalytics

WeeklySpec == WeeklyInit /\ [][WeeklyNext]_vars

\* The mood entries of the query's user inside the range.
EntriesInRange == SelectInRange(store.mood_entries, resp.query, "created_at")

\* The Monday and the Sunday on or before a day (day 0 is a Sunday).
MondayOnOrBefore(day) == CHOOSE m \in day - 6 .. day : m % 7 = 1

SundayOnOrBefore(day) == CHOOSE m \in day - 6 .. day : m % 7 = 0

\* The sum of the scores of a set of mood entries.
RECURSIVE TotalOfScores(_)
TotalOfScores(entries) ==
  IF entries = {} THEN 0
  ELSE First({e.mood_score + TotalOfScores(entries \ {e}) : e \in {First(entries)}})

\* The mood entries in range of the week that starts on the Monday.
EntriesOfWeek(monday) ==
  {e \in EntriesInRange : MondayOnOrBefore(e.created_at) = monday}

\* The buckets are in strictly ascending order of their keys.
Ascending(buckets) ==
  \A k \in DOMAIN buckets : k < Len(buckets) => buckets[k].week < buckets[k + 1].week

\* Every mood entry in range is counted in exactly one bucket, the one of
\* the Monday of its week; every bucket is the week of an entry; the buckets
\* are in strictly ascending order.
MoodBucketsPartition ==
  /\ \A e \in EntriesInRange :
       Cardinality({k \in DOMAIN resp.value.weekly_averages :
                      resp.value.weekly_averages[k].week
                        = MondayOnOrBefore(e.created_at)}) = 1
  /\ \A k \in DOMAIN resp.value.weekly_averages :
       EntriesOfWeek(resp.value.weekly_averages[k].week) # {}
  /\ Ascending(resp.value.weekly_averages)

\* Every completion of a habit is counted in exactly one bucket, the one of
\* the Sunday of its week; a bucket counts the completions of its week, the
\* buckets are ascending and their counts sum to total_completions.
HabitBucketsPartition ==
  \A entry \in HabitEntries :
    /\ \A log \in CompletionsOf(entry) :
         Cardinality({k \in DOMAIN entry.weekly_completions :
                        entry.weekly_completions[k].week
                          = SundayOnOrBefore(log.completed_at)}) = 1
    /\ \A k \in DOMAIN entry.weekly_completions :
         /\ entry.weekly_completions[k].completions > 0
         /\ entry.weekly_completions[k].completions =
              Cardinality({log \in CompletionsOf(entry) :
                             SundayOnOrBefore(log.completed_at)
                               = entry.weekly_completions[k].week})
    /\ Ascending(entry.weekly_completions)
    /\ entry.total_completions = Cardinality(CompletionsOf(entry))

----------------------------------------------------------------------------
(***************************************************************************)
(* Concurrent updates.  Two update calls on the same row are in flight at  *)
(* once.  An update handler reads the clock and builds its update object   *)
(* when it runs, and the store executes the UPDATE statement, one statement *)
(* at a time, some time later; updateReminder first awaits a select of the  *)
(* row.  resp.value keeps the row as it was before the calls, as the set of *)
(* at most one row, and where each call stands: called, selected (the       *)
(* select was executed), built (the update object is built, at time t) and  *)
(* done.                                                                    *)
(***************************************************************************)
\* Pairs of inputs that name disjoint fields of one row of a table: row 1,
\* which is stored, or row 2, which is not.
UpdatePairs ==
  {[table |-> "mood_entries",
    inputs |-> <<[id |-> 1, mood_score |-> 7], [id |-> 1, notes |-> "a"]>>],
   [table |-> "reminders",
    inputs |-> <<[id |-> 1, is_active |-> FALSE],
                 [id |-> 1, title |-> "t2", message |-> "m"]>>],
   [table |-> "reminders",
    inputs |-> <<[id |-> 1, reminder_time |-> "10:00", days_of_week |-> <<2>>],
                 [id |-> 1, reminder_type |-> "mood", target_id |-> 1]>>],
   [table |-> "mood_entries",
    inputs |-> <<[id |-> 2, mood_score |-> 7], [id |-> 2, notes |-> "a"]>>],
   [table |-> "reminders",
    inputs |-> <<[id |-> 2, is_active |-> FALSE], [id |-> 2, title |-> "t2"]>>]}

\* The store holding one mood entry and one reminder of u1, created at 0.
UpdateStore ==
  createReminder(createMoodEntry(EmptyStore, 0, [user_id |-> "u1", mood_score |-> 5]).store,
                 0,
                 [user_id |-> "u1", title |-> "t", reminder_time |-> "09:00",
                  days_of_week |-> <<1>>, reminder_type |-> "general"]).store

UpdateCalls == {1, 2}

\* The call moves on: c is what it becomes.
CallStep(i, c, st) ==
  /\ resp' = [resp EXCEPT !.value.calls[i] = c]
  /\ store' = st
  /\ UNCHANGED now

\* The store executes the select of updateReminder.
SelectExisting(i) ==
  /\ resp.value.table = "reminders"
  /\ resp.value.calls[i].pc = "called"
  /\ CallStep(i, [resp.value.calls[i] EXCEPT
                      !.pc = "selected",
                      !.existing = Cardinality(SelectById(store.reminders,
                                                          resp.value.calls[i].input.id))],
                store)

\* updateReminder found no row and throws.
ThrowNotFound(i) ==
  /\ resp.value.calls[i].pc = "selected"
  /\ resp.value.calls[i].existing = 0
  /\ CallStep(i, [resp.value.calls[i] EXCEPT !.pc = "done", !.status = "NotFound"],
                store)

\* The handler builds its update object, with updated_at: new Date(), and
\* sends the UPDATE.
BuildUpdate(i) ==
  /\ \/ resp.value.table = "mood_entries" /\ resp.value.calls[i].pc = "called"
     \/ resp.value.calls[i].pc = "selected" /\ resp.value.calls[i].existing > 0
  /\ CallStep(i, [resp.value.calls[i] EXCEPT !.pc = "built", !.t = now], store)

\* The handler of the table, run on the store at the time of the UPDATE with
\* the update object built at t.
UpdateOf(table, st, t, input) ==
  IF table = "mood_entries" THEN updateMoodEntry(st, t, input)
  ELSE updateReminder(st, t, input)

\* The store executes the UPDATE and the call returns.
ExecuteUpdate(i) ==
  /\ resp.value.calls[i].pc = "built"
  /\ CallStep(i,
                [resp.value.calls[i] EXCEPT
                   !.pc = "done",
                   !.status = UpdateOf(resp.value.table, store, resp.value.calls[i].t,
                                       resp.value.calls[i].input).status,
                   !.value = UpdateOf(resp.value.table, store, resp.value.calls[i].t,
                                      resp.value.calls[i].input).value],
                UpdateOf(resp.value.table, store, resp.value.calls[i].t,
                         resp.value.calls[i].input).store)

\* Time passes while the calls are in flight.
Later ==
  /\ now <= MaxClock
  /\ now' = now + 1
  /\ UNCHANGED <<store, resp>>

UpdateInit ==
  /\ store = UpdateStore
  /\ now \in 0 .. 1
  /\ \E pair \in UpdatePairs :
       resp = [op |-> "update", user_id |-> "u1", status |-> "ok",
               value |-> [table |-> pair.table,
                          before |-> SelectById(UpdateStore[pair.table],
                                                pair.inputs[1].id),
                          calls |-> [i \in UpdateCalls |->
                                       [input |-> pair.inputs[i], pc |-> "called",
                                        existing |-> 0, t |-> 0, status |-> "ok",
                                        value |-> NULL]]]]

UpdateNext ==
  \/ \E i \in UpdateCalls :
       SelectExisting(i) \/ ThrowNotFound(i) \/ BuildUpdate(i) \/ ExecuteUpdate(i)
  \/ Later

UpdateSpec == UpdateInit /\ [][UpdateNext]_vars

\* The row the calls update, as stored.
UpdatedRow == First(SelectById(store[resp.value.table], resp.value.calls[1].input.id))

\* C28: when two updates of the same stored row that name disjoint fields
\* have both run, under any interleaving, both succeeded, the stored row has
\* the new value of every field either call named, and its updated_at is not
\* earlier than before the calls.
C28_NoLostUpdate ==
  (resp.op = "update" /\ resp.value.before # {}
     /\ \A i \in UpdateCalls : resp.value.calls[i].pc = "done") =>
    /\ \A i \in UpdateCalls :
         /\ resp.value.calls[i].status = "ok"
         /\ \A f \in DOMAIN resp.value.calls[i].input :
              UpdatedRow[f] = resp.value.calls[i].input[f]
    /\ \A row \in resp.value.before : UpdatedRow.updated_at >= row.updated_at

\* Both calls have run on a stored row; the one that built its update object
\* first had its UPDATE executed last, so the row carries the earlier of the
\* two times, and it carries the fields of both calls.
C28_Witness ==
  /\ resp.op = "update"
  /\ resp.value.before # {}
  /\ \A i \in UpdateCalls : resp.value.calls[i].pc = "done"
  /\ resp.value.calls[1].t < resp.value.calls[2].t
  /\ UpdatedRow.updated_at = resp.value.calls[1].t
  /\ \A i \in UpdateCalls : \A f \in DOMAIN resp.value.calls[i].input :
       UpdatedRow[f] = resp.value.calls[i].input[f]
  /\ UpdatedRow \notin resp.value.before

----------------------------------------------------------------------------
(***************************************************************************)
(* Concurrent export.  exportUserData sends its eight selects at once and  *)
(* the store executes them one at a time, in any order, while create calls *)
(* of the same user are executed in between.  resp is the export in        *)
(* flight: the selects still pending and the arrays already read.          *)
(***************************************************************************)
\* A create call of u1 is executed while the export is in flight.
Concurrently(r) ==
  /\ store' = r.store
  /\ UNCHANGED <<now, resp>>

CreateMedicationMeanwhile ==
  /\ HasRoom
  /\ Concurrently(createMedication(store, now, [user_id |-> "u1"]))

CreateMedicationLogMeanwhile ==
  /\ HasRoom
  /\ Concurrently(createMedicationLog(store, now, [medication_id |-> 1, user_id |-> "u1"]))

CreateSupplementMeanwhile ==
  /\ HasRoom
  /\ Concurrently(createSupplement(store, now, [user_id |-> "u1"]))

CreateSupplementLogMeanwhile ==
  /\ HasRoom
  /\ Concurrently(createSupplementLog(store, now, [supplement_id |-> 1, user_id |-> "u1"]))

CreateHabitMeanwhile ==
  /\ HasRoom
  /\ Concurrently(createHabit(store, now, [user_id |-> "u1"]))

CreateHabitLogMeanwhile ==
  /\ HasRoom
  /\ Concurrently(createHabitLog(store, now, [habit_id |-> 1, user_id |-> "u1"]))

\* exportUserData is called: Promise.all over the eight selects.
BeginExport ==
  /\ resp.op = "none"
  /\ resp' = [op |-> "exportUserData", user_id |-> "u1", status |-> "pending",
              value |-> [data |-> [tb \in Tables |-> <<>>], pending |-> Tables]]
  /\ UNCHANGED <<store, now>>

\* The store executes one of the pending selects.
ExecuteSelect ==
  /\ resp.op = "exportUserData"
  /\ resp.status = "pending"
  /\ \E tb \in resp.value.pending :
       \E a \in Arrays(SelectByUser(store[tb], resp.user_id)) :
         resp' = [resp EXCEPT !.value.data[tb] = a,
                              !.value.pending = @ \ {tb}]
  /\ UNCHANGED <<store, now>>

\* All selects are back: the export returns the eight arrays.
ReturnExport ==
  /\ resp.op = "exportUserData"
  /\ resp.status = "pending"
  /\ resp.value.pending = {}
  /\ resp' = [resp EXCEPT !.status = "ok"]
  /\ UNCHANGED <<store, now>>

ExportInit ==
  /\ store = EmptyStore
  /\ now = 0
  /\ resp = [op |-> "none", user_id |-> NULL, status |-> "ok", value |-> NULL]

ExportNext ==
  \/ BeginExport
  \/ ExecuteSelect
  \/ ReturnExport
  \/ CreateMedicationMeanwhile
  \/ CreateMedicationLogMeanwhile
  \/ CreateSupplementMeanwhile
  \/ CreateSupplementLogMeanwhile
  \/ CreateHabitMeanwhile
  \/ CreateHabitLogMeanwhile

ExportSpec == ExportInit /\ [][ExportNext]_vars

\* Every log of the array has its parent in the array of parents.
HasParents(logs, ref, parents) ==
  \A i \in DOMAIN logs : \E j \in DOMAIN parents : parents[j].id = logs[i][ref]

\* C27: under every interleaving of the export's selects with create calls,
\* every medication log, supplement log and habit log of the returned
\* snapshot has its parent in the snapshot.
C27_SnapshotHasParents ==
  (resp.op = "exportUserData" /\ resp.status = "ok") =>
    /\ HasParents(resp.value.data.medication_logs, "medication_id",
                  resp.value.data.medications)
    /\ HasParents(resp.value.data.supplement_logs, "supplement_id",
                  resp.value.data.supplements)
    /\ HasParents(resp.value.data.habit_logs, "habit_id", resp.value.data.habits)

====
